---- MODULE Spec2Model ----
(***************************************************************************)
(* kiln: encrypted environment files.  The model covers the config model   *)
(* (recipients, groups, access resolution), the env text codec, the age    *)
(* envelope, the Store (GetAllEnvVars, SaveAllEnvVars, GetEnvVar,          *)
(* SetEnvVar, CheckEnvFile), the two WriteFile implementations and the     *)
(* rekey command, as one process that runs one command at a time against   *)
(* the files on disk.                                                      *)
(*                                                                         *)
(* Strings whose content the code inspects (variable values, the text of   *)
(* a line of the plaintext) are sequences of one-character strings.        *)
(* Names of recipients and of groups are drawn from disjoint sets.         *)
(***************************************************************************)
EXTENDS Integers, Sequences, FiniteSets, TLC

\* ------------------------------------------------------------------------
\* The universe the inputs are drawn from
\* ------------------------------------------------------------------------

\* Recipient names a config or an --add-recipient flag may use.
Names == {"alice", "bob"}

\* Group names a config may declare.
GroupNames == {"g1", "g2"}

\* Public keys; the identity holding the matching private key is named by
\* the same string.
PubKeys == {"kA", "kB"}

\* Variable names and values (values as character sequences).
VarNames == {"K1", "K2"}

Values == {<<"a", "$">>, <<"4", "2">>, <<"0", "7">>}

\* The logical file the config declares, and one it does not declare.
ProdFile == "prod"

OtherFile == "other"

\* Most --add-recipient flags on one rekey command line.
MaxAdd == 2

\* A path that holds no file.
NoFile == [exists |-> FALSE]

\* Content of a file whose write stopped before the last byte (this
\* includes the empty file left by O_TRUNC).
Partial == [complete |-> FALSE]

\* Permission bits.
Mode0600 == "0600"

Mode0644 == "0644"

Range(s) == {s[i] : i \in 1..Len(s)}

Min(S) == CHOOSE x \in S : \A y \in S : x <= y

\* ------------------------------------------------------------------------
\* internal/errors: the error kinds
\* ------------------------------------------------------------------------

\* A nil error.
NoErr == [kind |-> "nil", msg |-> "", arg |-> ""]

ValidationError(msg, arg) == [kind |-> "validation", msg |-> msg, arg |-> arg]

ConfigError(msg, arg) == [kind |-> "configuration", msg |-> msg, arg |-> arg]

SecurityError(msg, arg) == [kind |-> "security", msg |-> msg, arg |-> arg]

\* fmt.Errorf without a kind prefix
PlainError(msg) == [kind |-> "plain", msg |-> msg, arg |-> ""]

\* ------------------------------------------------------------------------
\* internal/config
\* ------------------------------------------------------------------------

\* Paths: the config file lives in ConfigDir.
RelName == "prod.env"

AbsName == "/proj/prod.env"

\* The directory of the config file.
ConfigDir == "/proj"

IsAbs(p) == p \in {AbsName, ConfigDir}

Join(p) == IF p = RelName THEN AbsName ELSE IF p = "" THEN ConfigDir ELSE p

\* A config with nothing in it (also: no config loaded).
EmptyCfg == [recipients |-> <<>>, groups |-> <<>>, files |-> <<>>]

\* Config.AddRecipient: insert or overwrite.
AddRecipient(c, name, publicKey) ==
    [c EXCEPT !.recipients =
        [n \in (DOMAIN c.recipients) \cup {name} |->
            IF n = name THEN publicKey ELSE c.recipients[n]]]

\* A walk that does not know the wildcard.
ResolveWalkNoWildcard(c, access, i) ==
    UNION {IF access[j] \in DOMAIN c.groups
           THEN {c.recipients[m] :
                   m \in Range(c.groups[access[j]]) \cap DOMAIN c.recipients}
           ELSE IF access[j] \in DOMAIN c.recipients
           THEN {c.recipients[access[j]]}
           ELSE {} : j \in i..Len(access)}

\* The walk of Config.ResolveFileAccess over access[i..], as a set of keys.
RECURSIVE ResolveWalk(_, _, _)
ResolveWalk(c, access, i) ==
    IF i > Len(access) THEN {}
    ELSE LET accessor == access[i] IN
         IF accessor = "*"
         THEN {c.recipients[n] : n \in DOMAIN c.recipients}
         ELSE IF accessor \in DOMAIN c.groups
         THEN {c.recipients[m] :
                 m \in Range(c.groups[accessor]) \cap DOMAIN c.recipients}
              \cup ResolveWalk(c, access, i + 1)
         ELSE IF accessor \in DOMAIN c.recipients
         THEN {c.recipients[accessor]} \cup ResolveWalk(c, access, i + 1)
         ELSE ResolveWalk(c, access, i + 1)

\* A resolution that refuses an access token it does not know.
ResolveFileAccessStrict(c, fileName) ==
    IF fileName \notin DOMAIN c.files
    THEN [err |-> PlainError("file not found in configuration"), keys |-> {}]
    ELSE LET access == c.files[fileName].access
             keys == ResolveWalk(c, access, 1) IN
         IF keys = {} \/ \E j \in 1..Len(access) :
                            access[j] \notin DOMAIN c.groups \cup DOMAIN c.recipients \cup {"*"}
         THEN [err |-> PlainError("no valid recipients found"), keys |-> {}]
         ELSE [err |-> NoErr, keys |-> keys]

\* Config.ResolveFileAccess: [err, keys].
ResolveFileAccess(c, fileName) ==
    IF fileName \notin DOMAIN c.files
    THEN [err |-> PlainError("file not found in configuration"), keys |-> {}]
    ELSE LET keys == ResolveWalk(c, c.files[fileName].access, 1) IN
         IF keys = {}
         THEN [err |-> PlainError("no valid recipients found"), keys |-> {}]
         ELSE [err |-> NoErr, keys |-> keys]

\* Config.GetEnvFile: [err, path].
GetEnvFile(c, name) ==
    IF name \in DOMAIN c.files
    THEN [err |-> NoErr, path |-> c.files[name].filename]
    ELSE [err |-> PlainError("file not found in configuration"), path |-> ""]

\* Config.Validate
Validate(c) ==
    IF DOMAIN c.recipients = {}
    THEN PlainError("no recipients configured")
    ELSE IF \E f \in DOMAIN c.files : c.files[f].filename = ""
    THEN PlainError("file path is empty")
    ELSE IF \E f \in DOMAIN c.files : c.files[f].access = <<>>
    THEN PlainError("no access control defined")
    ELSE NoErr

\* config.Load on the parsed content of the config file: relative file
\* names are resolved against the config's directory.
Load(onDisk) ==
    IF ~onDisk.complete
    THEN [err |-> PlainError("load configuration"), cfg |-> EmptyCfg]
    ELSE IF DOMAIN onDisk.cfg.recipients = {}
    THEN [err |-> PlainError("no recipients in configuration"), cfg |-> EmptyCfg]
    ELSE [err |-> NoErr,
          cfg |-> [onDisk.cfg EXCEPT !.files =
                     [f \in DOMAIN onDisk.cfg.files |->
                        [onDisk.cfg.files[f] EXCEPT
                           !.filename = IF IsAbs(@) THEN @ ELSE Join(@)]]]]

\* Runtime.Config: Load, then Validate.
RuntimeConfig(onDisk) ==
    LET l == Load(onDisk) IN
    IF l.err # NoErr THEN l
    ELSE IF Validate(l.cfg) # NoErr
    THEN [err |-> Validate(l.cfg), cfg |-> EmptyCfg]
    ELSE l

\* ------------------------------------------------------------------------
\* Env text codec (ParseEnv / FormatEnv over godotenv)
\* ------------------------------------------------------------------------

DigitChars == <<"0", "1", "2", "3", "4", "5", "6", "7", "8", "9">>

IsDigit(ch) == ch \in Range(DigitChars)

DigitVal(ch) == (CHOOSE i \in 1..10 : DigitChars[i] = ch) - 1

\* strconv.Atoi: an optional sign, then one or more decimal digits.
AtoiBody(s) == IF s # <<>> /\ Head(s) \in {"+", "-"} THEN Tail(s) ELSE s

AtoiOk(s) == AtoiBody(s) # <<>> /\ \A i \in 1..Len(AtoiBody(s)) : IsDigit(AtoiBody(s)[i])

RECURSIVE DigitsVal(_)
DigitsVal(s) ==
    IF s = <<>> THEN 0
    ELSE 10 * DigitsVal(SubSeq(s, 1, Len(s) - 1)) + DigitVal(s[Len(s)])

Atoi(s) == IF Head(s) = "-" THEN 0 - DigitsVal(AtoiBody(s)) ELSE DigitsVal(AtoiBody(s))

\* fmt's %d
RECURSIVE NatChars(_)
NatChars(n) ==
    IF n < 10 THEN <<DigitChars[n + 1]>>
    ELSE NatChars(n \div 10) \o <<DigitChars[(n % 10) + 1]>>

Itoa(n) == IF n < 0 THEN <<"-">> \o NatChars(0 - n) ELSE NatChars(n)

\* godotenv's doubleQuoteEscape: a backslash before each special character
\* (newline and carriage return become \n and \r).
\* (The backquote character is written "BQ": a string may not hold it.)
SpecialChars == {"\\", "\"", "!", "$", "BQ"}

RECURSIVE DoubleQuoteEscape(_)
DoubleQuoteEscape(s) ==
    IF s = <<>> THEN <<>>
    ELSE (IF Head(s) \in SpecialChars THEN <<"\\", Head(s)>>
          ELSE IF Head(s) = "\n" THEN <<"\\", "n">>
          ELSE IF Head(s) = "\r" THEN <<"\\", "r">>
          ELSE <<Head(s)>>) \o DoubleQuoteEscape(Tail(s))

\* The right-hand side godotenv.Marshal writes for a value: an integer is
\* written with %d and unquoted, anything else quoted and escaped.
MarshalValue(v) ==
    IF AtoiOk(v) THEN Itoa(Atoi(v))
    ELSE <<"\"">> \o DoubleQuoteEscape(v) \o <<"\"">>

\* Undo the escapes inside a double-quoted value.
RECURSIVE ExpandEscapes(_)
ExpandEscapes(s) ==
    IF s = <<>> THEN <<>>
    ELSE IF Head(s) = "\\" /\ Len(s) >= 2
    THEN (IF s[2] = "n" THEN <<"\n">>
          ELSE IF s[2] = "r" THEN <<"\r">>
          ELSE <<s[2]>>) \o ExpandEscapes(SubSeq(s, 3, Len(s)))
    ELSE <<Head(s)>> \o ExpandEscapes(Tail(s))

\* The value godotenv.Unmarshal reads from a right-hand side.
UnmarshalValue(t) ==
    IF Len(t) >= 2 /\ Head(t) = "\"" /\ t[Len(t)] = "\""
    THEN ExpandEscapes(SubSeq(t, 2, Len(t) - 1))
    ELSE t

\* FormatEnv: the plaintext, as its set of KEY=rhs lines (Marshal sorts the
\* lines, so the set determines the text); no variables give empty output.
FormatEnv(vars) ==
    {[key |-> k, rhs |-> MarshalValue(vars[k])] : k \in DOMAIN vars}

\* ParseEnv: the map read back from the lines.
ParseEnv(lines) ==
    [k \in {l.key : l \in lines} |->
        UnmarshalValue((CHOOSE l \in lines : l.key = k).rhs)]

\* ------------------------------------------------------------------------
\* Envelope (AgeManager)
\* ------------------------------------------------------------------------

\* An Encrypt that does not refuse empty data.
EncryptEmpty(recipients, data) ==
    IF recipients = {}
    THEN [err |-> PlainError("no recipients configured"), blob |-> Partial]
    ELSE [err |-> NoErr,
          blob |-> [complete |-> TRUE, rcpts |-> recipients, plain |-> data]]

\* An Encrypt that writes a stanza for every key there is.
EncryptToAll(recipients, data) ==
    IF recipients = {}
    THEN [err |-> PlainError("no recipients configured"), blob |-> Partial]
    ELSE IF data = {}
    THEN [err |-> PlainError("no data to encrypt"), blob |-> Partial]
    ELSE [err |-> NoErr,
          blob |-> [complete |-> TRUE, rcpts |-> PubKeys, plain |-> data]]

\* AgeManager.Encrypt: [err, blob]; the blob carries its recipient stanzas.
Encrypt(recipients, data) ==
    IF recipients = {}
    THEN [err |-> PlainError("no recipients configured"), blob |-> Partial]
    ELSE IF data = {}
    THEN [err |-> PlainError("no data to encrypt"), blob |-> Partial]
    ELSE [err |-> NoErr,
          blob |-> [complete |-> TRUE, rcpts |-> recipients, plain |-> data]]

\* A Decrypt that accepts any identity.
DecryptAnyIdentity(identity, blob) ==
    IF ~blob.complete
    THEN [err |-> PlainError("decrypt"), plain |-> {}]
    ELSE [err |-> NoErr, plain |-> blob.plain]

\* AgeManager.Decrypt with one identity: [err, plain].
Decrypt(identity, blob) ==
    IF ~blob.complete
    THEN [err |-> PlainError("decrypt"), plain |-> {}]
    ELSE IF identity \notin blob.rcpts
    THEN [err |-> PlainError("decrypt: no identity matched"), plain |-> {}]
    ELSE [err |-> NoErr, plain |-> blob.plain]

\* ------------------------------------------------------------------------
\* Store: the parts that only read
\* ------------------------------------------------------------------------

EmptyMap == <<>>

\* A GetAllEnvVars that resolves the access list before it looks for the
\* file.
GetAllEnvVarsAccessFirst(identity, c, fileName, file) ==
    IF GetEnvFile(c, fileName).err # NoErr
    THEN [err |-> ConfigError("file not configured", fileName), vars |-> EmptyMap]
    ELSE IF ResolveFileAccess(c, fileName).err # NoErr
    THEN [err |-> SecurityError("access denied", fileName), vars |-> EmptyMap]
    ELSE IF ~file.exists
    THEN [err |-> NoErr, vars |-> EmptyMap]
    ELSE IF Decrypt(identity, file.data).err # NoErr
    THEN [err |-> SecurityError("cannot decrypt", fileName), vars |-> EmptyMap]
    ELSE [err |-> NoErr, vars |-> ParseEnv(Decrypt(identity, file.data).plain)]

\* core.GetAllEnvVars on the file found at the resolved path: [err, vars].
GetAllEnvVars(identity, c, fileName, file) ==
    IF GetEnvFile(c, fileName).err # NoErr
    THEN [err |-> ConfigError("file not configured", fileName), vars |-> EmptyMap]
    ELSE IF ~file.exists
    THEN [err |-> NoErr, vars |-> EmptyMap]
    ELSE IF ResolveFileAccess(c, fileName).err # NoErr
    THEN [err |-> SecurityError("access denied", fileName), vars |-> EmptyMap]
    ELSE IF Decrypt(identity, file.data).err # NoErr
    THEN [err |-> SecurityError("cannot decrypt", fileName), vars |-> EmptyMap]
    ELSE [err |-> NoErr, vars |-> ParseEnv(Decrypt(identity, file.data).plain)]

\* core.GetEnvVar: [err, value].
GetEnvVar(identity, c, fileName, key, file) ==
    LET all == GetAllEnvVars(identity, c, fileName, file) IN
    IF all.err # NoErr THEN [err |-> all.err, value |-> <<>>]
    ELSE IF key \notin DOMAIN all.vars
    THEN [err |-> PlainError("variable not found"), value |-> <<>>]
    ELSE [err |-> NoErr, value |-> all.vars[key]]

\* core.CheckEnvFile: the error of GetAllEnvVars.
CheckEnvFile(identity, c, fileName, file) ==
    GetAllEnvVars(identity, c, fileName, file).err

\* core.SaveAllEnvVars up to the call of WriteFile: [err, data].
SaveAllEnvVarsData(c, fileName, variables) ==
    IF GetEnvFile(c, fileName).err # NoErr
    THEN [err |-> PlainError("file not configured"), data |-> Partial]
    ELSE IF ResolveFileAccess(c, fileName).err # NoErr
    THEN [err |-> PlainError("access error"), data |-> Partial]
    ELSE LET enc == Encrypt(ResolveFileAccess(c, fileName).keys, FormatEnv(variables)) IN
         IF enc.err # NoErr
         THEN [err |-> PlainError("cannot encrypt"), data |-> Partial]
         ELSE [err |-> NoErr, data |-> enc.blob]

\* variables[key] = value on a Go map.
MapSet(variables, key, value) ==
    [k \in (DOMAIN variables) \cup {key} |->
        IF k = key THEN value ELSE variables[k]]

\* ------------------------------------------------------------------------
\* Rekey planner: the parts that work on the loaded config
\* ------------------------------------------------------------------------

\* A key that IsPrivateKey recognises.
PrivKey == "AGE-SECRET-KEY-1"

\* RekeyCmd.validateRecipient on one name=key flag (names are non-empty).
validateRecipient(add) ==
    IF add.key = PrivKey
    THEN PlainError("private key provided instead of public key")
    ELSE IF add.key \notin PubKeys
    THEN PlainError("invalid public key format")
    ELSE NoErr

\* RekeyCmd.validate
RekeyValidate(fileName, adds) ==
    IF adds = <<>>
    THEN ValidationError("no recipients specified", "")
    ELSE IF \E i \in 1..Len(adds) : validateRecipient(adds[i]) # NoErr
    THEN ValidationError("recipient",
            adds[Min({i \in 1..Len(adds) : validateRecipient(adds[i]) # NoErr})].name)
    ELSE NoErr

\* RekeyCmd.checkDuplicateRecipients against the config as loaded.
checkDuplicateRecipientsNever(c, adds) == NoErr

checkDuplicateRecipients(c, adds) ==
    LET bad == {i \in 1..Len(adds) :
                  /\ adds[i].name \in DOMAIN c.recipients
                  /\ c.recipients[adds[i].name] # adds[i].key} IN
    IF bad = {} THEN NoErr
    ELSE ConfigError("recipient already exists with different key",
                     adds[Min(bad)].name)

\* RekeyCmd.addRecipientsToConfig, flags i.. of the command line.
RECURSIVE addRecipientsToConfig(_, _, _)
addRecipientsToConfig(c, adds, i) ==
    IF i > Len(adds) THEN c
    ELSE addRecipientsToConfig(AddRecipient(c, adds[i].name, adds[i].key), adds, i + 1)

\* A hasFileAccess that finds access everywhere.
hasFileAccessAlways(c, fileConfig, name) == TRUE

\* RekeyCmd.hasFileAccess: the loop over the access list returns at the
\* first accessor that names a group.
hasFileAccess(c, fileConfig, name) ==
    IF name \in Range(fileConfig.access) \/ "*" \in Range(fileConfig.access)
    THEN TRUE
    ELSE LET gs == {i \in 1..Len(fileConfig.access) :
                      fileConfig.access[i] \in DOMAIN c.groups} IN
         IF gs = {} THEN FALSE
         ELSE name \in Range(c.groups[fileConfig.access[Min(gs)]])

\* RekeyCmd.updateFileAccess, flags i.. of the command line.
RECURSIVE updateFileAccess(_, _, _, _)
updateFileAccess(c, fileName, adds, i) ==
    IF fileName \notin DOMAIN c.files \/ i > Len(adds) THEN c
    ELSE IF hasFileAccess(c, c.files[fileName], adds[i].name)
    THEN updateFileAccess(c, fileName, adds, i + 1)
    ELSE updateFileAccess(
            [c EXCEPT !.files[fileName].access = Append(@, adds[i].name)],
            fileName, adds, i + 1)

\* The config RekeyCmd.Run hands to rekeyFile.
RekeyPlan(c, fileName, adds) ==
    updateFileAccess(addRecipientsToConfig(c, adds, 1), fileName, adds, 1)

\* ------------------------------------------------------------------------
\* State
\* ------------------------------------------------------------------------

VARIABLES
    cfgFile,   \* kiln.toml on disk: [complete, cfg], or Partial
    envFile,   \* the ciphertext file on disk: NoFile or [exists, data, mode]
    tmpFile,   \* the sibling temp file of a WriteFile in progress
    impl,      \* the WriteFile the build links: "rename" or "direct"
    pc,        \* where the running command stands ("idle": none runs)
    cmd,       \* the running command and its arguments
    mem,       \* its memory: the loaded config, the variables, the blob to write
    pre,       \* the files as they were when the command started
    res,       \* what the command returned, and the process's exit code
    proc       \* what the process holds beside that: plaintext buffers, the
               \* execution context, its child processes, its temp file

vars == <<cfgFile, envFile, tmpFile, impl, pc, cmd, mem, pre, res, proc>>

disk == <<cfgFile, envFile, tmpFile, impl>>

NoCmd == [op |-> "none", id |-> "", file |-> "", key |-> "",
          value |-> <<>>, map |-> EmptyMap, adds |-> <<>>]

NoMem == [cfg |-> EmptyCfg, vars |-> EmptyMap, wdata |-> Partial]

NoPre == [cfgFile |-> Partial, envFile |-> NoFile]

NoRes == [err |-> NoErr, vars |-> EmptyMap, value |-> <<>>, exit |-> 0]

NoProc == [kind |-> "none"]

\* ------------------------------------------------------------------------
\* Initial states: a config as `init config` and a user's edits leave it,
\* and an env file that either was never written or was written by an
\* earlier command for some recipient set.
\* ------------------------------------------------------------------------

InitRecipients ==
    {[n \in {"alice"} |-> "kA"],
     [n \in {"alice", "bob"} |-> IF n = "alice" THEN "kA" ELSE "kB"]}

NoGroups == <<>>

TwoGroups == [g \in {"g1", "g2"} |-> IF g = "g1" THEN <<"alice">> ELSE <<"bob">>]

\* Access lists, each with the groups declared beside it.
InitAccess ==
    {[groups |-> NoGroups, access |-> <<"*">>],
     [groups |-> NoGroups, access |-> <<"alice">>],
     [groups |-> NoGroups, access |-> <<"bob">>],
     [groups |-> TwoGroups, access |-> <<"g1", "g2">>]}

InitConfigs ==
    {[recipients |-> r, groups |-> a.groups,
      files |-> [f \in {ProdFile} |->
                   [filename |-> RelName, access |-> a.access]]] :
        r \in InitRecipients, a \in InitAccess}

InitVars == [k \in {"K1"} |-> <<"a", "$">>]

InitEnvFiles ==
    {NoFile} \cup
    {[exists |-> TRUE,
      data |-> [complete |-> TRUE, rcpts |-> rs, plain |-> FormatEnv(InitVars)],
      mode |-> m] : rs \in (SUBSET PubKeys) \ {{}}, m \in {Mode0600, Mode0644}}

Init ==
    /\ cfgFile \in {[complete |-> TRUE, cfg |-> c] : c \in InitConfigs}
    /\ envFile \in InitEnvFiles
    /\ tmpFile = NoFile
    /\ impl \in {"rename", "direct"}
    /\ pc = "idle"
    /\ cmd = NoCmd
    /\ mem = NoMem
    /\ pre = NoPre
    /\ res = NoRes
    /\ proc = NoProc

\* ------------------------------------------------------------------------
\* Commands
\* ------------------------------------------------------------------------

\* Every variable map over VarNames, the empty one included.
Maps == UNION {[S -> Values] : S \in SUBSET VarNames}

\* The name=key flags of a rekey command line.
AddFlags == [name : Names, key : PubKeys]

AddLists == UNION {[1..n -> AddFlags] : n \in 0..MaxAdd}

Logicals == {ProdFile, OtherFile}

\* A command starts: its arguments and the files it finds.
Begin(op, id, file, key, value, map, adds) ==
    /\ pc = "idle"
    /\ cmd' = [op |-> op, id |-> id, file |-> file, key |-> key,
               value |-> value, map |-> map, adds |-> adds]
    /\ pre' = [cfgFile |-> cfgFile, envFile |-> envFile]
    /\ UNCHANGED proc

\* main: the command returned; the exit code is 1 for any error.
Return(err, outVars, outValue) ==
    /\ pc' = "done"
    /\ res' = [err |-> err, vars |-> outVars, value |-> outValue,
               exit |-> IF err = NoErr THEN 0 ELSE 1]

WriteStart == IF impl = "rename" THEN "w_create" ELSE "d_open"

\* export / run / apply: core.GetAllEnvVars with the loaded config.
GetAll(id, f) ==
    /\ Begin("get_all", id, f, "", <<>>, EmptyMap, <<>>)
    /\ LET rc == RuntimeConfig(cfgFile) IN
       IF rc.err # NoErr
       THEN Return(rc.err, EmptyMap, <<>>) /\ mem' = NoMem
       ELSE LET r == GetAllEnvVars(id, rc.cfg, f, envFile) IN
            Return(r.err, r.vars, <<>>) /\ mem' = [NoMem EXCEPT !.cfg = rc.cfg]
    /\ UNCHANGED disk

\* get: core.GetEnvVar with the loaded config.
GetOne(id, f, k) ==
    /\ Begin("get_one", id, f, k, <<>>, EmptyMap, <<>>)
    /\ LET rc == RuntimeConfig(cfgFile) IN
       IF rc.err # NoErr
       THEN Return(rc.err, EmptyMap, <<>>) /\ mem' = NoMem
       ELSE LET r == GetEnvVar(id, rc.cfg, f, k, envFile) IN
            Return(r.err, EmptyMap, r.value) /\ mem' = [NoMem EXCEPT !.cfg = rc.cfg]
    /\ UNCHANGED disk

\* info --verify: core.CheckEnvFile with the loaded config.
Check(id, f) ==
    /\ Begin("check", id, f, "", <<>>, EmptyMap, <<>>)
    /\ LET rc == RuntimeConfig(cfgFile) IN
       IF rc.err # NoErr
       THEN Return(rc.err, EmptyMap, <<>>) /\ mem' = NoMem
       ELSE Return(CheckEnvFile(id, rc.cfg, f, envFile), EmptyMap, <<>>)
            /\ mem' = [NoMem EXCEPT !.cfg = rc.cfg]
    /\ UNCHANGED disk

\* core.SaveAllEnvVars of `variables` under config c, up to WriteFile.
SaveAll(c, f, variables) ==
    LET sd == SaveAllEnvVarsData(c, f, variables) IN
    IF sd.err # NoErr
    THEN Return(sd.err, EmptyMap, <<>>)
         /\ mem' = [cfg |-> c, vars |-> variables, wdata |-> Partial]
    ELSE /\ pc' = WriteStart
         /\ res' = NoRes
         /\ mem' = [cfg |-> c, vars |-> variables, wdata |-> sd.data]

\* set NAME VALUE: core.SetEnvVar with the loaded config.
SetOne(id, f, k, v) ==
    /\ Begin("set_one", id, f, k, v, EmptyMap, <<>>)
    /\ LET rc == RuntimeConfig(cfgFile) IN
       IF rc.err # NoErr
       THEN Return(rc.err, EmptyMap, <<>>) /\ mem' = NoMem
       ELSE LET r == GetAllEnvVars(id, rc.cfg, f, envFile) IN
            IF r.err # NoErr
            THEN Return(r.err, EmptyMap, <<>>) /\ mem' = [NoMem EXCEPT !.cfg = rc.cfg]
            ELSE SaveAll(rc.cfg, f, MapSet(r.vars, k, v))
    /\ UNCHANGED disk

\* edit's save, SetMultipleEnvironmentVars: core.SaveAllEnvVars.
SetAll(id, f, m) ==
    /\ Begin("set_all", id, f, "", <<>>, m, <<>>)
    /\ LET rc == RuntimeConfig(cfgFile) IN
       IF rc.err # NoErr
       THEN Return(rc.err, EmptyMap, <<>>) /\ mem' = NoMem
       ELSE SaveAll(rc.cfg, f, m)
    /\ UNCHANGED disk

\* rekey: RekeyCmd.Run up to rekeyFile's call of cfg.Save.
Rekey(id, f, adds) ==
    /\ Begin("rekey", id, f, "", <<>>, EmptyMap, adds)
    /\ LET v == RekeyValidate(f, adds)
           rc == RuntimeConfig(cfgFile)
           dup == checkDuplicateRecipients(rc.cfg, adds)
           plan == RekeyPlan(rc.cfg, f, adds)
           r == GetAllEnvVars(id, plan, f, envFile)
       IN
       IF v # NoErr THEN Return(v, EmptyMap, <<>>) /\ mem' = NoMem
       ELSE IF rc.err # NoErr THEN Return(rc.err, EmptyMap, <<>>) /\ mem' = NoMem
       ELSE IF dup # NoErr
       THEN Return(dup, EmptyMap, <<>>) /\ mem' = [NoMem EXCEPT !.cfg = rc.cfg]
       ELSE IF GetEnvFile(plan, f).err # NoErr
       THEN Return(GetEnvFile(plan, f).err, EmptyMap, <<>>)
            /\ mem' = [NoMem EXCEPT !.cfg = plan]
       ELSE IF ~envFile.exists
       THEN Return(NoErr, EmptyMap, <<>>) /\ mem' = [NoMem EXCEPT !.cfg = plan]
       ELSE IF r.err # NoErr
       THEN Return(r.err, EmptyMap, <<>>) /\ mem' = [NoMem EXCEPT !.cfg = plan]
       ELSE /\ pc' = "c_open"
            /\ res' = NoRes
            /\ mem' = [cfg |-> plan, vars |-> r.vars, wdata |-> Partial]
    /\ UNCHANGED disk

\* ------------------------------------------------------------------------
\* Config.Save: os.WriteFile truncates the config file, then writes it
\* ------------------------------------------------------------------------

CfgOpen ==
    /\ pc = "c_open"
    /\ cfgFile' = Partial
    /\ pc' = "c_write"
    /\ UNCHANGED <<envFile, tmpFile, impl, cmd, mem, pre, proc, res>>

CfgOpenFail ==
    /\ pc = "c_open"
    /\ Return(PlainError("open config"), EmptyMap, <<>>)
    /\ UNCHANGED <<cfgFile, envFile, tmpFile, impl, cmd, mem, pre, proc>>

\* The config is written; rekeyFile goes on to SaveAllEnvVars.
CfgWrite ==
    /\ pc = "c_write"
    /\ cfgFile' = [complete |-> TRUE, cfg |-> mem.cfg]
    /\ SaveAll(mem.cfg, cmd.file, mem.vars)
    /\ UNCHANGED <<envFile, tmpFile, impl, cmd, pre, proc>>

CfgWriteFail ==
    /\ pc = "c_write"
    /\ Return(PlainError("write config"), EmptyMap, <<>>)
    /\ UNCHANGED <<cfgFile, envFile, tmpFile, impl, cmd, mem, pre, proc>>

\* ------------------------------------------------------------------------
\* WriteFile, the variant that writes a temp file and renames it
\* ------------------------------------------------------------------------

WCreateTemp ==
    /\ pc = "w_create"
    /\ tmpFile' = [exists |-> TRUE, data |-> Partial, mode |-> Mode0600]
    /\ pc' = "w_write"
    /\ UNCHANGED <<cfgFile, envFile, impl, cmd, mem, pre, proc, res>>

\* CreateTemp or Chmod fails; the deferred cleanup removes the temp file.
WCreateTempFail ==
    /\ pc = "w_create"
    /\ Return(PlainError("create temp"), EmptyMap, <<>>)
    /\ UNCHANGED <<cfgFile, envFile, tmpFile, impl, cmd, mem, pre, proc>>

WWrite ==
    /\ pc = "w_write"
    /\ tmpFile' = [tmpFile EXCEPT !.data = mem.wdata]
    /\ pc' = "w_rename"
    /\ UNCHANGED <<cfgFile, envFile, impl, cmd, mem, pre, proc, res>>

WWriteFail ==
    /\ pc = "w_write"
    /\ tmpFile' = NoFile
    /\ Return(PlainError("write temp"), EmptyMap, <<>>)
    /\ UNCHANGED <<cfgFile, envFile, impl, cmd, mem, pre, proc>>

\* Close, then Rename over the target.
WRename ==
    /\ pc = "w_rename"
    /\ envFile' = tmpFile
    /\ tmpFile' = NoFile
    /\ Return(NoErr, EmptyMap, <<>>)
    /\ UNCHANGED <<cfgFile, impl, cmd, mem, pre, proc>>

WRenameFail ==
    /\ pc = "w_rename"
    /\ tmpFile' = NoFile
    /\ Return(PlainError("rename"), EmptyMap, <<>>)
    /\ UNCHANGED <<cfgFile, envFile, impl, cmd, mem, pre, proc>>

\* ------------------------------------------------------------------------
\* WriteFile, the variant that calls os.WriteFile on the target
\* ------------------------------------------------------------------------

\* O_CREATE|O_TRUNC: an existing file keeps its mode and loses its content.
DOpen ==
    /\ pc = "d_open"
    /\ envFile' = [exists |-> TRUE, data |-> Partial,
                   mode |-> IF envFile.exists THEN envFile.mode ELSE Mode0600]
    /\ pc' = "d_write"
    /\ UNCHANGED <<cfgFile, tmpFile, impl, cmd, mem, pre, proc, res>>

DOpenFail ==
    /\ pc = "d_open"
    /\ Return(PlainError("open"), EmptyMap, <<>>)
    /\ UNCHANGED <<cfgFile, envFile, tmpFile, impl, cmd, mem, pre, proc>>

DWrite ==
    /\ pc = "d_write"
    /\ envFile' = [envFile EXCEPT !.data = mem.wdata]
    /\ Return(NoErr, EmptyMap, <<>>)
    /\ UNCHANGED <<cfgFile, tmpFile, impl, cmd, mem, pre, proc>>

DWriteFail ==
    /\ pc = "d_write"
    /\ Return(PlainError("write"), EmptyMap, <<>>)
    /\ UNCHANGED <<cfgFile, envFile, tmpFile, impl, cmd, mem, pre, proc>>

\* ------------------------------------------------------------------------
\* The process ends
\* ------------------------------------------------------------------------

\* os.Exit(exitCode)
Exit ==
    /\ pc = "done"
    /\ pc' = "idle"
    /\ cmd' = NoCmd
    /\ mem' = NoMem
    /\ pre' = NoPre
    /\ UNCHANGED proc
    /\ res' = NoRes
    /\ UNCHANGED disk

\* The process is killed between two steps; the config and the env file
\* stay as they are.  A temp file left behind keeps its random name, which
\* no later command opens: it is tracked no further.
Crash ==
    /\ pc \notin {"idle", "done"}
    /\ pc' = "idle"
    /\ cmd' = NoCmd
    /\ mem' = NoMem
    /\ pre' = NoPre
    /\ UNCHANGED proc
    /\ res' = NoRes
    /\ tmpFile' = NoFile
    /\ UNCHANGED <<cfgFile, envFile, impl>>

WriteStep ==
    \/ WCreateTemp \/ WCreateTempFail
    \/ WWrite \/ WWriteFail
    \/ WRename \/ WRenameFail
    \/ DOpen \/ DOpenFail
    \/ DWrite \/ DWriteFail

StoreCommand ==
    \E id \in PubKeys, f \in Logicals :
        \/ GetAll(id, f)
        \/ Check(id, f)
        \/ \E k \in VarNames : GetOne(id, f, k)
        \/ \E k \in VarNames, v \in Values : SetOne(id, f, k, v)
        \/ \E m \in Maps : SetAll(id, f, m)

RekeyCommand ==
    \E id \in PubKeys, f \in Logicals, adds \in AddLists : Rekey(id, f, adds)

CfgStep == CfgOpen \/ CfgOpenFail \/ CfgWrite \/ CfgWriteFail

\* The Store's commands alone.
NextStore == StoreCommand \/ WriteStep \/ Exit

SpecStore == Init /\ [][NextStore]_vars

\* The rekey command alone, with crashes.
NextRekey == RekeyCommand \/ CfgStep \/ WriteStep \/ Exit \/ Crash

InitRekey == Init /\ (envFile.exists => envFile.mode = Mode0600)

SpecRekey == InitRekey /\ [][NextRekey]_vars

Next == StoreCommand \/ RekeyCommand \/ CfgStep \/ WriteStep \/ Exit \/ Crash

Spec == Init /\ [][Next]_vars

\* ------------------------------------------------------------------------
\* Vocabulary of the properties
\* ------------------------------------------------------------------------

\* The keys a persisted config grants access to the file.
Granted(onDisk, f) ==
    IF onDisk.complete /\ ResolveFileAccess(onDisk.cfg, f).err = NoErr
    THEN ResolveFileAccess(onDisk.cfg, f).keys
    ELSE {}

\* The identities that can decrypt a persisted ciphertext.
CanDecrypt(file) ==
    IF file.exists THEN {id \in PubKeys : Decrypt(id, file.data).err = NoErr}
    ELSE {}

\* Everyone the config grants access can decrypt the ciphertext, if there
\* is one.
Consistent(onDisk, file, f) ==
    file.exists => Granted(onDisk, f) \subseteq CanDecrypt(file)

\* The names a rekey command line adds.
AddedNames(adds) == {adds[i].name : i \in 1..Len(adds)}

\* How often a token occurs in an access list.
Count(access, token) == Cardinality({i \in 1..Len(access) : access[i] = token})

\* A rekey of the configured file has returned.
RekeyDone == pc = "done" /\ cmd.op = "rekey" /\ cmd.file = ProdFile

\* A rekey of the configured file, whose ciphertext existed, has succeeded.
RekeySucceeded ==
    RekeyDone /\ res.err = NoErr /\ pre.envFile.exists

DupMsg == "recipient already exists with different key"

\* The flags of the command line that name a recipient of the loaded
\* config with another key.
Conflicts(c, adds) ==
    {i \in 1..Len(adds) :
        /\ adds[i].name \in DOMAIN c.recipients
        /\ c.recipients[adds[i].name] # adds[i].key}

\* ------------------------------------------------------------------------
\* Properties of rekey
\* ------------------------------------------------------------------------

\* C1 (as claimed): while a rekey of a file whose ciphertext exists runs,
\* and after it has returned, the persisted config grants access to no key
\* that cannot decrypt the persisted ciphertext, provided that was so when
\* the command started.
C1_ConfigNeverAheadOfCiphertext ==
    (/\ cmd.op = "rekey"
     /\ pre.envFile.exists
     /\ Consistent(pre.cfgFile, pre.envFile, cmd.file))
    => Consistent(cfgFile, envFile, cmd.file)

C3_MissingFilePersistsConfig ==
    (RekeyDone /\ res.err = NoErr /\ ~pre.envFile.exists) =>
        /\ cfgFile.complete
        /\ cfgFile.cfg.recipients = mem.cfg.recipients
        /\ cfgFile.cfg.files[cmd.file].access = mem.cfg.files[cmd.file].access
        /\ ~envFile.exists

\* C4: a rekey whose command line names a recipient of the loaded config
\* with a different key fails with the duplicate-recipient error naming
\* such a recipient, exits 1 and leaves config and ciphertext as they
\* were; a rekey that re-registers recipients with their own keys only
\* does not fail with that error and leaves their keys as they were.
C4_DuplicateRecipient ==
    (RekeyDone /\ pre.cfgFile.complete) =>
        LET c == Load(pre.cfgFile).cfg
            bad == Conflicts(c, cmd.adds) IN
        IF bad # {}
        THEN /\ res.err.kind = "configuration"
             /\ res.err.msg = DupMsg
             /\ res.err.arg \in {cmd.adds[i].name : i \in bad}
             /\ res.exit = 1
             /\ cfgFile = pre.cfgFile
             /\ envFile = pre.envFile
        ELSE /\ res.err.msg # DupMsg
             /\ \A n \in AddedNames(cmd.adds) \cap DOMAIN c.recipients :
                   cfgFile.complete => cfgFile.cfg.recipients[n] = c.recipients[n]

\* C4 witness: a rekey failed on a recipient registered with another key.
C4_Witness ==
    /\ RekeyDone
    /\ res.err.msg = DupMsg
    /\ \E i \in 1..Len(cmd.adds) : cmd.adds[i].name = res.err.arg

\* Whether the access list already implies access for a name: the name
\* itself, the wildcard, or any listed group the name is a member of.
Implied(c, access, n) ==
    \/ n \in Range(access)
    \/ "*" \in Range(access)
    \/ \E g \in Range(access) \cap DOMAIN c.groups : n \in Range(c.groups[g])

\* C5 (as claimed): a successful rekey has appended each added name to the
\* file's access list once if the list did not imply its access, and not
\* at all if it did.
C5_AppendExactlyWhenNotImplied ==
    (RekeySucceeded /\ pre.cfgFile.complete /\ cfgFile.complete) =>
        LET c == Load(pre.cfgFile).cfg
            old == c.files[cmd.file].access
            new == cfgFile.cfg.files[cmd.file].access IN
        \A n \in AddedNames(cmd.adds) :
            Count(new, n) = Count(old, n) + (IF Implied(c, old, n) THEN 0 ELSE 1)

\* ------------------------------------------------------------------------
\* Properties of the store
\* ------------------------------------------------------------------------

\* A command on the configured file has returned.
Done(op) == pc = "done" /\ cmd.op = op /\ cmd.file = ProdFile

\* C6 (as claimed): after a successful set_all(map), get_all by any
\* identity whose key is in the file's resolved access returns exactly
\* map.
C6_SetAllGetAllRoundTrip ==
    (Done("set_all") /\ res.err = NoErr) =>
        \A id \in Granted(cfgFile, cmd.file) :
            GetAllEnvVars(id, mem.cfg, cmd.file, envFile)
                = [err |-> NoErr, vars |-> cmd.map]

\* C7 (as claimed): after a successful set_one(K, V) by an identity whose
\* key is in the file's resolved access, get_one(K) returns V, and
\* get_one(K') of every other key returns what it returned on the file as
\* it was before the call.
C7_SetOneFrame ==
    (Done("set_one") /\ res.err = NoErr /\ cmd.id \in Granted(cfgFile, cmd.file)) =>
        /\ GetEnvVar(cmd.id, mem.cfg, cmd.file, cmd.key, envFile)
              = [err |-> NoErr, value |-> cmd.value]
        /\ \A k \in VarNames \ {cmd.key} :
              GetEnvVar(cmd.id, mem.cfg, cmd.file, k, envFile)
                 = GetEnvVar(cmd.id, mem.cfg, cmd.file, k, pre.envFile)

\* C8: get_all and check of a configured file whose ciphertext does not
\* exist return no error, get_all returns the empty map, and nothing on
\* disk changes, whoever the caller is and whatever the access list
\* resolves to.
C8_MissingFileReadsEmpty ==
    (/\ Done("get_all") \/ Done("check")
     /\ ~pre.envFile.exists
     /\ RuntimeConfig(pre.cfgFile).err = NoErr)
    => /\ res.err = NoErr
       /\ res.exit = 0
       /\ res.vars = EmptyMap
       /\ envFile = pre.envFile
       /\ cfgFile = pre.cfgFile

\* C8 witness: get_all of the missing file returned for a caller the
\* access list does not resolve to.
C8_Witness ==
    /\ Done("get_all")
    /\ ~pre.envFile.exists
    /\ cmd.id \notin Granted(pre.cfgFile, cmd.file)
    /\ res.err = NoErr

\* C9 (as claimed): while a set command runs and after it has returned,
\* the target holds its previous content or the complete new content;
\* after success its mode is 0600 and no temp file remains; after failure
\* it is as it was and no temp file remains.
C9_AtomicWrite ==
    (cmd.op \in {"set_one", "set_all"} /\ cmd.file = ProdFile) =>
        /\ \/ envFile = pre.envFile
           \/ /\ envFile.exists
              /\ envFile.data.complete
              /\ envFile.data = mem.wdata
        /\ (pc = "done" /\ res.err = NoErr) =>
              /\ envFile.exists
              /\ envFile.data = mem.wdata
              /\ envFile.mode = Mode0600
              /\ ~tmpFile.exists
        /\ (pc = "done" /\ res.err # NoErr) =>
              /\ envFile = pre.envFile
              /\ ~tmpFile.exists

C11_HeaderDecides ==
    (/\ Done("get_all")
     /\ pre.envFile.exists
     /\ pre.envFile.data.complete
     /\ cmd.id \in pre.envFile.data.rcpts
     /\ cmd.id \notin Granted(pre.cfgFile, cmd.file)
     /\ RuntimeConfig(pre.cfgFile).err = NoErr)
    => /\ res.err = NoErr
       /\ res.vars = ParseEnv(pre.envFile.data.plain)

\* ------------------------------------------------------------------------
\* Config.ResolveFileAccess on its own
\* ------------------------------------------------------------------------

\* The longest access list drawn.
MaxAccess == 3

Tokens == Names \cup GroupNames \cup {"*"}

AccessLists == UNION {[1..n -> Tokens] : n \in 1..MaxAccess}

\* One or two recipients; two recipients may hold the same key.
ResolveRecipients == [{"alice"} -> PubKeys] \cup [Names -> PubKeys]

ResolveGroups ==
    {NoGroups, TwoGroups, [g \in {"g1"} |-> <<"alice", "bob">>]}

ResolveConfigs ==
    {[recipients |-> r, groups |-> g,
      files |-> [f \in {ProdFile} |-> [filename |-> RelName, access |-> a]]] :
        r \in ResolveRecipients, g \in ResolveGroups, a \in AccessLists}

\* The keys of the map recipientSet appended to a slice, in some order.
RECURSIVE KeyList(_)
KeyList(recipientSet) ==
    IF recipientSet = {} THEN <<>>
    ELSE LET k == CHOOSE k \in recipientSet : TRUE IN
         <<k>> \o KeyList(recipientSet \ {k})

\* Config.ResolveFileAccess with the slice it returns: [err, list].
ResolveFileAccessList(c, fileName) ==
    LET r == ResolveFileAccess(c, fileName) IN
    [err |-> r.err, list |-> KeyList(r.keys)]

\* cfg.ResolveFileAccess(f) is called on the config in the config file.
ResolveAccess(f) ==
    /\ Begin("resolve", "", f, "", <<>>, EmptyMap, <<>>)
    /\ cfgFile.complete
    /\ LET r == ResolveFileAccessList(cfgFile.cfg, f) IN
       Return(r.err, EmptyMap, r.list)
    /\ mem' = [NoMem EXCEPT !.cfg = cfgFile.cfg]
    /\ UNCHANGED disk

InitResolve ==
    /\ cfgFile \in {[complete |-> TRUE, cfg |-> c] : c \in ResolveConfigs}
    /\ envFile = NoFile
    /\ tmpFile = NoFile
    /\ impl = "rename"
    /\ pc = "idle"
    /\ cmd = NoCmd
    /\ mem = NoMem
    /\ pre = NoPre
    /\ res = NoRes
    /\ proc = NoProc

NextResolve == (\E f \in Logicals : ResolveAccess(f)) \/ Exit

SpecResolve == InitResolve /\ [][NextResolve]_vars

\* The public keys a config declares.
DeclaredKeys(c) == {c.recipients[n] : n \in DOMAIN c.recipients}

\* C12: when ResolveFileAccess succeeds, every key of the list it returns
\* is a declared recipient's key, no key is in the list twice, and if the
\* access list has the wildcard at any position the list holds exactly the
\* keys of all declared recipients.
C12_ResolveSubsetAndWildcard ==
    (pc = "done" /\ cmd.op = "resolve" /\ res.err = NoErr) =>
        LET c == mem.cfg
            list == res.value IN
        /\ cmd.file \in DOMAIN c.files
        /\ Range(list) \subseteq DeclaredKeys(c)
        /\ Cardinality(Range(list)) = Len(list)
        /\ "*" \in Range(c.files[cmd.file].access) =>
              Range(list) = DeclaredKeys(c)

\* C12 witness: the wildcard comes last in an access list whose first
\* token names a recipient, two recipients hold the same key, and the
\* resolution returned.
C12_Witness ==
    /\ pc = "done" /\ cmd.op = "resolve" /\ res.err = NoErr
    /\ Len(mem.cfg.files[cmd.file].access) > 1
    /\ mem.cfg.files[cmd.file].access[1] \in DOMAIN mem.cfg.recipients
    /\ mem.cfg.files[cmd.file].access[Len(mem.cfg.files[cmd.file].access)] = "*"
    /\ Cardinality(DOMAIN mem.cfg.recipients) > Cardinality(DeclaredKeys(mem.cfg))

\* ------------------------------------------------------------------------
\* Loading a config file
\* ------------------------------------------------------------------------

\* Config files as a user may have written them: no recipients, an empty
\* file name, an empty access list, tokens and group members that name
\* nothing.
LoadConfigs ==
    {[recipients |-> r, groups |-> g,
      files |-> [f \in {ProdFile} |-> [filename |-> fn, access |-> a]]] :
        r \in {<<>>} \cup InitRecipients,
        g \in {NoGroups, TwoGroups},
        fn \in {"", RelName, AbsName},
        a \in {<<>>} \cup AccessLists}

\* rt.Config() at the start of every command.
LoadConfig ==
    /\ Begin("load", "", ProdFile, "", <<>>, EmptyMap, <<>>)
    /\ LET rc == RuntimeConfig(cfgFile) IN
       /\ Return(rc.err, EmptyMap, <<>>)
       /\ mem' = [NoMem EXCEPT !.cfg = rc.cfg]
    /\ UNCHANGED disk

InitLoad ==
    /\ cfgFile \in {[complete |-> TRUE, cfg |-> c] : c \in LoadConfigs}
    /\ envFile = NoFile
    /\ tmpFile = NoFile
    /\ impl = "rename"
    /\ pc = "idle"
    /\ cmd = NoCmd
    /\ mem = NoMem
    /\ pre = NoPre
    /\ res = NoRes
    /\ proc = NoProc

NextLoad == LoadConfig \/ Exit

SpecLoad == InitLoad /\ [][NextLoad]_vars

\* The invariants a config must satisfy on load.
WellFormed(c) ==
    /\ DOMAIN c.recipients # {}
    /\ \A f \in DOMAIN c.files :
          /\ c.files[f].filename # ""
          /\ c.files[f].access # <<>>
          /\ \A t \in Range(c.files[f].access) :
                t = "*" \/ t \in DOMAIN c.recipients \/ t \in DOMAIN c.groups
    /\ \A g \in DOMAIN c.groups :
          Range(c.groups[g]) \subseteq DOMAIN c.recipients

\* C13 (as claimed): loading a config that breaks one of the invariants on
\* load fails.
C13_LoadRejectsIllFormed ==
    (pc = "done" /\ cmd.op = "load" /\ ~WellFormed(pre.cfgFile.cfg))
        => res.err # NoErr

\* ------------------------------------------------------------------------
\* Plaintext buffers
\* ------------------------------------------------------------------------

\* The zero byte.
NUL == "NUL"

\* core.WipeData: every byte of the slice is set to zero.
WipeData(data) == [i \in DOMAIN data |-> NUL]

\* The buffers a successful GetAllEnvVars hands out: the values of the
\* map, each a slice of its own.
ValueBuffers(variables) == [k \in DOMAIN variables |-> variables[k]]

\* The cleanup GetAllEnvVars returns, on the value slices.
CleanupValues(vals) == [k \in DOMAIN vals |-> WipeData(vals[k])]

\* ------------------------------------------------------------------------
\* run: RunCmd.Run, executeCommand and the child process
\* ------------------------------------------------------------------------

\* The exit codes a child ends with.
ExitCodes == {0, 1, 42}

\* *ExitError of handleCommandError; the code is kept in proc.code.
ExitError == [kind |-> "exit", msg |-> "command exited with code", arg |-> ""]

\* What a run holds: the value slices of the decrypted map and how often
\* their cleanup ran, the execution context and what cancelled it, the
\* child and the processes the child started, the error Run returns.
RunProc(vals) ==
    [kind |-> "run", vals |-> vals, cleanups |-> 0,
     timeout |-> FALSE, ctx |-> "none", cause |-> "none",
     child |-> "none", code |-> 0, kids |-> "none", err |-> NoErr]

\* RunCmd.Run up to cmd.Start: validate, rt.Config, GetAllEnvVars with the
\* deferred cleanup, the dry run, createContext, Start.
RunStart(id, f, dryRun, timeout, valid, found) ==
    /\ pc = "idle"
    /\ cmd' = [NoCmd EXCEPT !.op = "run", !.id = id, !.file = f]
    /\ pre' = [cfgFile |-> cfgFile, envFile |-> envFile]
    /\ UNCHANGED disk
    /\ IF ~valid
       THEN /\ Return(ValidationError("command", "no command specified"), EmptyMap, <<>>)
            /\ mem' = NoMem /\ proc' = NoProc
       ELSE LET rc == RuntimeConfig(cfgFile) IN
       IF rc.err # NoErr
       THEN Return(rc.err, EmptyMap, <<>>) /\ mem' = NoMem /\ proc' = NoProc
       ELSE LET r == GetAllEnvVars(id, rc.cfg, f, envFile) IN
       IF r.err # NoErr
       THEN /\ Return(r.err, EmptyMap, <<>>)
            /\ mem' = [NoMem EXCEPT !.cfg = rc.cfg] /\ proc' = NoProc
       ELSE /\ mem' = [NoMem EXCEPT !.cfg = rc.cfg, !.vars = r.vars]
            /\ res' = NoRes
            /\ IF dryRun
               THEN /\ pc' = "r_cleanup"
                    /\ proc' = RunProc(ValueBuffers(r.vars))
               ELSE IF ~found
               THEN /\ pc' = "r_cancel"
                    /\ proc' = [RunProc(ValueBuffers(r.vars)) EXCEPT
                                  !.timeout = timeout, !.ctx = "active",
                                  !.err = PlainError("command failed")]
               ELSE /\ pc' = "r_wait"
                    /\ proc' = [RunProc(ValueBuffers(r.vars)) EXCEPT
                                  !.timeout = timeout, !.ctx = "active",
                                  !.child = "running"]

RunStep(next) == /\ pc' = next /\ UNCHANGED <<disk, cmd, mem, pre, res>>

\* The child starts a process of its own.
ChildFork ==
    /\ proc.kind = "run" /\ proc.child = "running" /\ proc.kids = "none"
    /\ proc' = [proc EXCEPT !.kids = "running"]
    /\ RunStep(pc)

\* The child ends by itself with a code.
ChildExit(n) ==
    /\ proc.kind = "run" /\ proc.child = "running"
    /\ proc' = [proc EXCEPT !.child = "exited", !.code = n]
    /\ RunStep(pc)

\* A process the child started ends by itself.
KidExit ==
    /\ proc.kind = "run" /\ proc.kids = "running"
    /\ proc' = [proc EXCEPT !.kids = "exited"]
    /\ RunStep(pc)

\* context.WithTimeout: the deadline passes.
Deadline ==
    /\ pc = "r_wait" /\ proc.timeout /\ proc.ctx = "active"
    /\ proc' = [proc EXCEPT !.ctx = "cancelled", !.cause = "deadline"]
    /\ RunStep(pc)

\* signal.NotifyContext: SIGINT or SIGTERM arrives while the context is
\* registered for it.  Before createContext and after the deferred cancel
\* the signal has its default action, which ends the process like a kill
\* that no code of the program answers.
Signal ==
    /\ pc = "r_wait" /\ proc.ctx = "active"
    /\ proc' = [proc EXCEPT !.ctx = "cancelled", !.cause = "signal"]
    /\ RunStep(pc)

\* exec.CommandContext: the context is done, os.Process.Kill on the child.
KillChild ==
    /\ pc = "r_wait" /\ proc.ctx = "cancelled" /\ proc.child = "running"
    /\ proc' = [proc EXCEPT !.child = "killed"]
    /\ RunStep(pc)

\* cmd.Run returns once the child has ended; handleCommandError.
WaitReturn ==
    /\ pc = "r_wait" /\ proc.child \in {"exited", "killed"}
    /\ proc' = [proc EXCEPT !.err =
                  IF proc.child = "killed" THEN PlainError("command failed")
                  ELSE IF proc.code # 0 THEN ExitError
                  ELSE NoErr]
    /\ RunStep("r_cancel")

\* executeCommand's deferred cancel().
DeferCancel ==
    /\ pc = "r_cancel"
    /\ proc' = [proc EXCEPT !.ctx = "released"]
    /\ RunStep("r_cleanup")

\* A return from Run that skips the deferred cleanup.
RunCleanupSkipped ==
    /\ pc = "r_cleanup"
    /\ UNCHANGED proc
    /\ RunStep("r_main")

\* Run's deferred cleanup().
RunCleanup ==
    /\ pc = "r_cleanup"
    /\ proc' = [proc EXCEPT !.vals = CleanupValues(@), !.cleanups = @ + 1]
    /\ RunStep("r_main")

\* main: ctx.Run has returned; the exit code.
RunReturn ==
    /\ pc = "r_main"
    /\ Return(proc.err, EmptyMap, <<>>)
    /\ UNCHANGED <<disk, cmd, mem, pre, proc>>

\* os.Exit; what the process held is gone, the processes it left behind
\* are its concern no more.
RunExit ==
    /\ pc = "done"
    /\ pc' = "idle"
    /\ cmd' = NoCmd /\ mem' = NoMem /\ pre' = NoPre /\ res' = NoRes
    /\ proc' = NoProc
    /\ UNCHANGED disk

RunCommand ==
    \E id \in PubKeys, f \in Logicals, dryRun \in BOOLEAN, timeout \in BOOLEAN,
       valid \in BOOLEAN, found \in BOOLEAN :
        RunStart(id, f, dryRun, timeout, valid, found)

NextRun ==
    \/ RunCommand
    \/ ChildFork \/ (\E n \in ExitCodes : ChildExit(n)) \/ KidExit
    \/ Deadline \/ Signal \/ KillChild \/ WaitReturn
    \/ DeferCancel \/ RunCleanup \/ RunReturn \/ RunExit

InitRun == Init /\ impl = "rename" /\ (envFile.exists => envFile.mode = Mode0600)

SpecRun == InitRun /\ [][NextRun]_vars

\* ------------------------------------------------------------------------
\* Properties of run
\* ------------------------------------------------------------------------

\* A run has returned to main and the exit code is set.
RunDone == pc = "done" /\ cmd.op = "run"

\* Every byte of every value slice is zero.
AllZero(vals) ==
    \A k \in DOMAIN vals : \A i \in DOMAIN vals[k] : vals[k][i] = NUL

\* C14 (as claimed): when the child has ended by itself with code N the
\* process exits with N, and when the run failed otherwise (validation,
\* config, decryption, spawn error, timeout) it exits with 1.
C14_ExitCodePropagation ==
    RunDone =>
        IF proc.kind = "run" /\ proc.child = "exited"
        THEN res.exit = proc.code
        ELSE (res.err # NoErr) => res.exit = 1

C16_TimeoutLeavesNothingRunning ==
    (RunDone /\ proc.kind = "run" /\ proc.cause = "deadline"
        /\ proc.child = "killed") =>
        /\ res.exit = 1
        /\ proc.child # "running"
        /\ proc.kids # "running"

\* ------------------------------------------------------------------------
\* edit: EditCmd.Run, the temp file, the signal goroutine and the editor
\* ------------------------------------------------------------------------

\* A name validVarNameRegex rejects: it starts with a digit.
BadVarName == "1X"

\* A name godotenv refuses to parse: it holds a character that is no
\* letter, digit, underscore or dot.
MalformedName == "K-1"

\* godotenv.Unmarshal returns no error on the lines.
EnvParses(lines) == \A l \in lines : l.key # MalformedName

\* A validation of names that lets every name pass.
IsValidVarNameAny(name) == name # ""

\* core.IsValidVarName on the names of the model.
IsValidVarName(name) == name # "" /\ name # BadVarName

\* What the editor may leave in the temp file: a new value, a line whose
\* name is not valid, a line that does not parse, nothing at all.
EditTexts ==
    {FormatEnv([k \in {"K1"} |-> <<"4", "2">>]),
     {[key |-> BadVarName, rhs |-> <<"a">>]},
     {[key |-> MalformedName, rhs |-> <<"a">>]},
     {}}

\* What an edit holds once createTempFile has created the file: the temp
\* file and its content, the sync.Once of cleanupTemp and how often
\* os.Remove ran, whether signal.Notify is registered and a signal waits in
\* sigChan, the context, the signal goroutine, the editor, whether the
\* process lives, the error Run returns.
EditProc(content) ==
    [kind |-> "edit", alive |-> TRUE, temp |-> "exists", text |-> content,
     once |-> FALSE, removes |-> 0, notify |-> "none", pending |-> FALSE,
     ctx |-> "none", gor |-> "none", editor |-> "none", code |-> 0,
     modified |-> FALSE, err |-> NoErr]

\* cleanupTemp: cleanupOnce.Do(Close; os.Remove).
cleanupTemp(p) ==
    IF p.once THEN p
    ELSE [p EXCEPT !.once = TRUE, !.removes = @ + 1,
                   !.temp = IF @ = "exists" THEN "removed" ELSE @]

\* EditCmd.Run up to the return of createTempFile: validate, rt.Identity,
\* rt.Config, prepareContent, CreateTemp, writeAndCloseTempFile.
EditStart(id, f, valid, outcome) ==
    /\ pc = "idle"
    /\ cmd' = [NoCmd EXCEPT !.op = "edit", !.id = id, !.file = f]
    /\ pre' = [cfgFile |-> cfgFile, envFile |-> envFile]
    /\ UNCHANGED disk
    /\ IF ~valid
       THEN /\ Return(ValidationError("file name", "cannot contain .. or /"), EmptyMap, <<>>)
            /\ mem' = NoMem /\ proc' = NoProc
       ELSE LET rc == RuntimeConfig(cfgFile) IN
       IF rc.err # NoErr
       THEN Return(rc.err, EmptyMap, <<>>) /\ mem' = NoMem /\ proc' = NoProc
       ELSE LET r == GetAllEnvVars(id, rc.cfg, f, envFile) IN
       IF r.err # NoErr
       THEN /\ Return(r.err, EmptyMap, <<>>)
            /\ mem' = [NoMem EXCEPT !.cfg = rc.cfg] /\ proc' = NoProc
       ELSE /\ mem' = [NoMem EXCEPT !.cfg = rc.cfg]
            /\ IF outcome = "create"
               THEN /\ Return(PlainError("create temp file"), EmptyMap, <<>>)
                    /\ proc' = NoProc
               ELSE IF outcome = "write"
               THEN /\ Return(PlainError("write content to temp file"), EmptyMap, <<>>)
                    /\ proc' = cleanupTemp([EditProc({}) EXCEPT
                                  !.err = PlainError("write content to temp file")])
               ELSE /\ pc' = "e_stat"
                    /\ res' = NoRes
                    /\ proc' = EditProc(FormatEnv(r.vars))

EditStep(next) == /\ pc' = next /\ UNCHANGED <<disk, cmd, mem, pre, res>>

\* getFileStats and determineEditor; a missing or unusable editor returns
\* through the deferred cleanupTemp alone.
EditDetermine(editorOk) ==
    /\ pc = "e_stat" /\ proc.alive
    /\ IF editorOk
       THEN UNCHANGED proc /\ EditStep("e_setup")
       ELSE /\ proc' = [proc EXCEPT !.err = ConfigError("no editor specified", "")]
            /\ EditStep("e_cleanup")

\* setupSignalHandling: WithCancel, signal.Notify, the goroutine starts.
EditSetup ==
    /\ pc = "e_setup" /\ proc.alive
    /\ proc' = [proc EXCEPT !.notify = "on", !.ctx = "active", !.gor = "waiting"]
    /\ EditStep("e_start")

\* executeEditor: execCmd.Run starts the editor, or fails to.
EditLaunch(found) ==
    /\ pc = "e_start" /\ proc.alive
    /\ IF proc.ctx = "cancelled"
       THEN /\ proc' = [proc EXCEPT !.err = PlainError("editor interrupted")]
            /\ EditStep("e_cancel")
       ELSE IF ~found
       THEN /\ proc' = [proc EXCEPT !.err = PlainError("editor failed")]
            /\ EditStep("e_cancel")
       ELSE /\ proc' = [proc EXCEPT !.editor = "running"]
            /\ EditStep("e_wait")

\* SIGINT or SIGTERM arrives while signal.Notify is registered: it is
\* queued in sigChan (one slot).
EditSignal ==
    /\ proc.kind = "edit" /\ proc.alive /\ pc \notin {"idle", "done"}
    /\ proc.notify = "on" /\ ~proc.pending
    /\ proc' = [proc EXCEPT !.pending = TRUE]
    /\ EditStep(pc)

\* SIGINT or SIGTERM arrives while the process has the temp file and
\* signal.Notify is not registered (before setupSignalHandling, after
\* signal.Stop): the default action ends the process, no deferred call
\* runs.
EditSignalDefault ==
    /\ proc.kind = "edit" /\ proc.alive /\ pc \notin {"idle", "done"}
    /\ proc.notify # "on"
    /\ proc' = [proc EXCEPT !.alive = FALSE, !.err = PlainError("signal")]
    /\ pc' = "done"
    /\ res' = [NoRes EXCEPT !.err = PlainError("signal"), !.exit = 2]
    /\ UNCHANGED <<disk, cmd, mem, pre>>

\* The goroutine's select takes the signal from sigChan.
GorTake ==
    /\ proc.kind = "edit" /\ proc.alive /\ proc.gor = "waiting" /\ proc.pending
    /\ proc' = [proc EXCEPT !.pending = FALSE, !.gor = "cleaning"]
    /\ EditStep(pc)

\* The goroutine calls cleanupTemp().
GorCleanup ==
    /\ proc.kind = "edit" /\ proc.alive /\ proc.gor = "cleaning"
    /\ proc' = [cleanupTemp(proc) EXCEPT !.gor = "cancelling"]
    /\ EditStep(pc)

\* The goroutine calls cancel() and ends (signalDone is closed).
GorCancel ==
    /\ proc.kind = "edit" /\ proc.alive /\ proc.gor = "cancelling"
    /\ proc' = [proc EXCEPT !.ctx = "cancelled", !.gor = "done"]
    /\ EditStep(pc)

\* The goroutine's select takes ctx.Done() and ends.
GorCtxDone ==
    /\ proc.kind = "edit" /\ proc.alive /\ proc.gor = "waiting"
    /\ proc.ctx = "cancelled"
    /\ proc' = [proc EXCEPT !.gor = "done"]
    /\ EditStep(pc)

\* The editor writes the temp file.
EditorSave(t) ==
    /\ proc.kind = "edit" /\ proc.editor = "running" /\ proc.temp = "exists"
    /\ ~proc.modified
    /\ proc' = [proc EXCEPT !.text = t, !.modified = TRUE]
    /\ EditStep(pc)

\* The editor ends by itself with a code.
EditorExit(n) ==
    /\ proc.kind = "edit" /\ proc.alive /\ proc.editor = "running"
    /\ proc' = [proc EXCEPT !.editor = "exited", !.code = n]
    /\ EditStep(pc)

\* exec.CommandContext: the context is done, os.Process.Kill on the editor.
EditorKill ==
    /\ proc.kind = "edit" /\ proc.alive /\ proc.editor = "running"
    /\ proc.ctx = "cancelled"
    /\ proc' = [proc EXCEPT !.editor = "killed"]
    /\ EditStep(pc)

\* execCmd.Run returns; executeEditor's error.
EditWait ==
    /\ pc = "e_wait" /\ proc.alive /\ proc.editor \in {"exited", "killed"}
    /\ LET execErr == proc.editor = "killed" \/ proc.code # 0
           ctxErr == proc.ctx = "cancelled"
       IN IF execErr
          THEN /\ proc' = [proc EXCEPT !.err =
                             IF ctxErr THEN PlainError("editor interrupted")
                             ELSE PlainError("editor failed")]
               /\ EditStep("e_cancel")
          ELSE IF ctxErr
          THEN /\ proc' = [proc EXCEPT !.err = PlainError("operation cancelled")]
               /\ EditStep("e_cancel")
          ELSE UNCHANGED proc /\ EditStep("e_process")

\* processChanges and saveChanges: Stat, the modification time, ReadFile,
\* ParseEnv, IsValidVarName, SaveAllEnvVars.
EditProcess(writeOk) ==
    /\ pc = "e_process" /\ proc.alive
    /\ pc' = "e_cancel"
    /\ UNCHANGED <<cfgFile, tmpFile, impl, cmd, mem, pre, res>>
    /\ IF proc.temp # "exists"
       THEN /\ proc' = [proc EXCEPT !.err = PlainError("stat temp file after editing")]
            /\ UNCHANGED envFile
       ELSE IF ~proc.modified
       THEN UNCHANGED <<proc, envFile>>
       ELSE LET updatedVariables == ParseEnv(proc.text)
                sd == SaveAllEnvVarsData(mem.cfg, cmd.file, updatedVariables)
            IN IF ~EnvParses(proc.text)
               THEN /\ proc' = [proc EXCEPT !.err = PlainError("invalid environment file format")]
                    /\ UNCHANGED envFile
               ELSE IF \E k \in DOMAIN updatedVariables : ~IsValidVarName(k)
               THEN /\ proc' = [proc EXCEPT !.err = ValidationError("variable name", "")]
                    /\ UNCHANGED envFile
               ELSE IF sd.err # NoErr \/ ~writeOk
               THEN /\ proc' = [proc EXCEPT !.err = PlainError("save changes")]
                    /\ UNCHANGED envFile
               ELSE /\ UNCHANGED proc
                    /\ envFile' = [exists |-> TRUE, data |-> sd.data, mode |-> Mode0600]

\* The deferred cancel of Run: signal.Stop(sigChan) and cancel().
EditCancel ==
    /\ pc = "e_cancel" /\ proc.alive
    /\ proc' = [proc EXCEPT !.notify = "stopped", !.ctx = "cancelled"]
    /\ EditStep("e_join")

\* The deferred cancel of Run: <-signalDone.
EditJoin ==
    /\ pc = "e_join" /\ proc.alive /\ proc.gor = "done"
    /\ UNCHANGED proc
    /\ EditStep("e_cleanup")

\* Run's deferred cleanupTemp().
EditCleanup ==
    /\ pc = "e_cleanup" /\ proc.alive
    /\ proc' = cleanupTemp(proc)
    /\ EditStep("e_main")

\* main: ctx.Run has returned; the exit code.
EditReturn ==
    /\ pc = "e_main" /\ proc.alive
    /\ Return(proc.err, EmptyMap, <<>>)
    /\ UNCHANGED <<disk, cmd, mem, pre, proc>>

\* The process is gone; a temp file it left keeps its random name.
EditExit ==
    /\ pc = "done"
    /\ pc' = "idle"
    /\ cmd' = NoCmd /\ mem' = NoMem /\ pre' = NoPre /\ res' = NoRes
    /\ proc' = NoProc
    /\ UNCHANGED disk

EditCommand ==
    \E id \in PubKeys, f \in Logicals, valid \in BOOLEAN,
       outcome \in {"ok", "create", "write"} :
        EditStart(id, f, valid, outcome)

NextEdit ==
    \/ EditCommand
    \/ (\E ok \in BOOLEAN : EditDetermine(ok))
    \/ EditSetup
    \/ (\E found \in BOOLEAN : EditLaunch(found))
    \/ EditSignal \/ EditSignalDefault
    \/ GorTake \/ GorCleanup \/ GorCancel \/ GorCtxDone
    \/ (\E t \in EditTexts : EditorSave(t))
    \/ (\E n \in ExitCodes : EditorExit(n))
    \/ EditorKill \/ EditWait
    \/ (\E ok \in BOOLEAN : EditProcess(ok))
    \/ EditCancel \/ EditJoin \/ EditCleanup \/ EditReturn \/ EditExit

InitEdit == Init /\ impl = "rename" /\ (envFile.exists => envFile.mode = Mode0600)

SpecEdit == InitEdit /\ [][NextEdit]_vars

\* ------------------------------------------------------------------------
\* Properties of edit
\* ------------------------------------------------------------------------

\* An edit that created its temp file has ended: Run returned to main, or
\* the process was ended by a signal.
EditDone == pc = "done" /\ cmd.op = "edit" /\ proc.kind = "edit"

\* C17 (as claimed): once the temp file of an edit has been created,
\* os.Remove runs on it at most once, and when the edit has ended (success,
\* no changes, no editor, editor failure, parse, validation or save
\* failure, SIGINT or SIGTERM at any point after the creation) the temp
\* file does not exist and was removed exactly once.
C17_TempFileRemovedOnce ==
    (cmd.op = "edit" /\ proc.kind = "edit") =>
        /\ proc.removes <= 1
        /\ EditDone => (proc.temp = "removed" /\ proc.removes = 1)

\* ------------------------------------------------------------------------
\* apply: ApplyCmd.substituteVariables on a template's bytes
\* ------------------------------------------------------------------------

\* [A-Za-z_] and [A-Za-z0-9_] on the characters of the model.
NameStartChars == {"X", "Y", "a", "b", "_"}

NameChars == NameStartChars \cup Range(DigitChars)

\* \s on the characters of the model.
SpaceChars == {" "}

\* --left-delimiter and --right-delimiter, when both are given.
LeftDelimiter == <<"[", "[">>

RightDelimiter == <<"]", "]">>

\* The literal lit stands in s at position i.
HasAt(s, i, lit) ==
    /\ i + Len(lit) - 1 <= Len(s)
    /\ \A j \in 1..Len(lit) : s[i + j - 1] = lit[j]

\* How many characters of the class stand in s from position i on.
RECURSIVE RunLen(_, _, _)
RunLen(s, i, class) ==
    IF i <= Len(s) /\ s[i] \in class THEN 1 + RunLen(s, i + 1, class) ELSE 0

NoMatch == [len |-> 0, name |-> <<>>]

\* The match of a pattern of buildPatterns that starts at position i:
\* its length and its submatch 1.
\*   braces:  \$\{([A-Za-z_][A-Za-z0-9_]*)\}
\*   simple:  \$([A-Za-z_][A-Za-z0-9_]*)
\*   custom:  left\s*([A-Za-z_][A-Za-z0-9_]*)\s*right
Match(pattern, s, i) ==
    IF pattern = "braces"
    THEN LET n == RunLen(s, i + 2, NameChars) IN
         IF /\ HasAt(s, i, <<"$", "{">>)
            /\ n > 0 /\ s[i + 2] \in NameStartChars
            /\ HasAt(s, i + 2 + n, <<"}">>)
         THEN [len |-> n + 3, name |-> SubSeq(s, i + 2, i + 1 + n)]
         ELSE NoMatch
    ELSE IF pattern = "simple"
    THEN LET n == RunLen(s, i + 1, NameChars) IN
         IF HasAt(s, i, <<"$">>) /\ n > 0 /\ s[i + 1] \in NameStartChars
         THEN [len |-> n + 1, name |-> SubSeq(s, i + 1, i + n)]
         ELSE NoMatch
    ELSE LET l  == Len(LeftDelimiter)
             w1 == RunLen(s, i + l, SpaceChars)
             n  == RunLen(s, i + l + w1, NameChars)
             w2 == RunLen(s, i + l + w1 + n, SpaceChars)
         IN IF /\ HasAt(s, i, LeftDelimiter)
               /\ n > 0 /\ s[i + l + w1] \in NameStartChars
               /\ HasAt(s, i + l + w1 + n + w2, RightDelimiter)
            THEN [len |-> l + w1 + n + w2 + Len(RightDelimiter),
                  name |-> SubSeq(s, i + l + w1, i + l + w1 + n - 1)]
            ELSE NoMatch

\* pattern.ReplaceAllFunc(result, func) from position i on: the matches
\* from left to right, none overlapping; [out, missing].
RECURSIVE ReplaceAllFunc(_, _, _, _, _)
ReplaceAllFunc(pattern, s, i, variables, strict) ==
    IF i > Len(s) THEN [out |-> <<>>, missing |-> <<>>]
    ELSE LET m == Match(pattern, s, i) IN
         IF m.len = 0
         THEN LET r == ReplaceAllFunc(pattern, s, i + 1, variables, strict) IN
              [out |-> <<s[i]>> \o r.out, missing |-> r.missing]
         ELSE LET r == ReplaceAllFunc(pattern, s, i + m.len, variables, strict) IN
              IF m.name \in DOMAIN variables
              THEN [out |-> variables[m.name] \o r.out, missing |-> r.missing]
              ELSE [out |-> SubSeq(s, i, i + m.len - 1) \o r.out,
                    missing |-> (IF strict THEN <<m.name>> ELSE <<>>) \o r.missing]

\* removeDuplicates: the first occurrence of each string, in order.
RECURSIVE removeDuplicates(_)
removeDuplicates(strs) ==
    IF strs = <<>> THEN <<>>
    ELSE LET front == removeDuplicates(SubSeq(strs, 1, Len(strs) - 1))
             last  == strs[Len(strs)]
         IN IF last \in Range(front) THEN front ELSE Append(front, last)

\* ApplyCmd.substituteVariables: [err, out, missing].
substituteVariables(content, variables, strict, custom) ==
    LET r == IF custom
             THEN ReplaceAllFunc("custom", content, 1, variables, strict)
             ELSE LET b == ReplaceAllFunc("braces", content, 1, variables, strict)
                      p == ReplaceAllFunc("simple", b.out, 1, variables, strict)
                  IN [out |-> p.out, missing |-> b.missing \o p.missing]
    IN IF r.missing # <<>>
       THEN [err |-> ValidationError("missing variables", "variables not found"),
             out |-> <<>>, missing |-> removeDuplicates(r.missing)]
       ELSE [err |-> NoErr, out |-> r.out, missing |-> <<>>]

\* The pieces the templates of the model are made of.
TemplateParts ==
    {<<"$", "{", "X", "}">>, <<"$", "{", "Y", "}">>, <<"$", "X">>, <<"$", "Y">>,
     <<"-">>, <<"$">>, <<"[", "[", "X", "]", "]">>,
     <<"[", "[", " ", "Y", " ", "]", "]">>}

MaxParts == 3

RECURSIVE Flatten(_)
Flatten(parts) ==
    IF parts = <<>> THEN <<>> ELSE Head(parts) \o Flatten(Tail(parts))

Templates == {Flatten(ps) : ps \in UNION {[1..n -> TemplateParts] : n \in 0..MaxParts}}

\* The decrypted maps of the model, keyed by the characters of the name.
TemplateMaps ==
    {v \in UNION {[S -> {<<"a">>, <<"b">>, <<"$", "Y">>}] :
                    S \in SUBSET {<<"X">>, <<"Y">>}} :
        \A k \in DOMAIN v : (v[k] = <<"b">>) <=> (k = <<"Y">>)}

\* What an apply holds: the template read, the decrypted map, the flags,
\* and what substituteVariables returned.
ApplyProc(t, v, strict, custom) ==
    [kind |-> "apply", template |-> t, variables |-> v, strict |-> strict,
     custom |-> custom, out |-> <<>>, missing |-> <<>>]

\* ApplyCmd.Run: substituteVariables on the template and the map.
Substitute ==
    /\ pc = "idle" /\ proc.kind = "apply"
    /\ LET r == substituteVariables(proc.template, proc.variables,
                                    proc.strict, proc.custom)
       IN /\ proc' = [proc EXCEPT !.out = r.out, !.missing = r.missing]
          /\ Return(r.err, EmptyMap, r.out)
    /\ cmd' = [NoCmd EXCEPT !.op = "apply"]
    /\ UNCHANGED <<disk, mem, pre>>

InitApply ==
    /\ cfgFile = [complete |-> TRUE, cfg |-> EmptyCfg]
    /\ envFile = NoFile
    /\ tmpFile = NoFile
    /\ impl = "rename"
    /\ pc = "idle"
    /\ cmd = NoCmd
    /\ mem = NoMem
    /\ pre = NoPre
    /\ res = NoRes
    /\ proc \in {ApplyProc(t, v, s, c) :
                   t \in Templates, v \in TemplateMaps,
                   s \in BOOLEAN, c \in BOOLEAN}

NextApply == Substitute

SpecApply == InitApply /\ [][NextApply]_vars

\* ------------------------------------------------------------------------
\* Properties of apply
\* ------------------------------------------------------------------------

ApplyDone == pc = "done" /\ cmd.op = "apply"

\* The match of the template that starts at position i: with the default
\* delimiters the braces form, else the simple form.
TemplateMatch(custom, s, i) ==
    IF custom THEN Match("custom", s, i)
    ELSE IF Match("braces", s, i).len > 0 THEN Match("braces", s, i)
    ELSE Match("simple", s, i)

\* The names the template refers to, from position i on.
RECURSIVE Referenced(_, _, _)
Referenced(custom, s, i) ==
    IF i > Len(s) THEN {}
    ELSE LET m == TemplateMatch(custom, s, i) IN
         IF m.len = 0 THEN Referenced(custom, s, i + 1)
         ELSE {m.name} \cup Referenced(custom, s, i + m.len)

\* The template with every match of a present variable replaced by the
\* value and every other character as it stands.
RECURSIVE Substituted(_, _, _, _)
Substituted(custom, s, i, variables) ==
    IF i > Len(s) THEN <<>>
    ELSE LET m == TemplateMatch(custom, s, i) IN
         IF m.len = 0 THEN <<s[i]>> \o Substituted(custom, s, i + 1, variables)
         ELSE (IF m.name \in DOMAIN variables THEN variables[m.name]
               ELSE SubSeq(s, i, i + m.len - 1))
              \o Substituted(custom, s, i + m.len, variables)

\* The names the template refers to that the map does not hold.
Absent == Referenced(proc.custom, proc.template, 1) \ DOMAIN proc.variables

\* C18 (as claimed): in strict mode with a referenced variable absent the
\* substitution fails, gives no output, and lists without repetition
\* exactly the names the template refers to and the map does not hold;
\* in every other case it succeeds and the output is the template with
\* each match of a present variable replaced by its value and each match
\* of an absent one left as it stands.
C18_TemplateSubstitution ==
    ApplyDone =>
        IF proc.strict /\ Absent # {}
        THEN /\ res.err # NoErr
             /\ proc.out = <<>>
             /\ Range(proc.missing) = Absent
             /\ Len(proc.missing) = Cardinality(Absent)
        ELSE /\ res.err = NoErr
             /\ proc.out = Substituted(proc.custom, proc.template, 1, proc.variables)

\* ------------------------------------------------------------------------
\* The buffers of a decrypting operation: GetAllEnvVars, GetEnvVar
\* ------------------------------------------------------------------------

\* The names in the order godotenv.Marshal writes their lines (sorted).
VarOrder == <<"K1", "K2">>

\* The bytes of the plaintext: one KEY=rhs line after the other.
RECURSIVE EnvBytes(_, _)
EnvBytes(lines, i) ==
    IF i > Len(VarOrder) THEN <<>>
    ELSE (IF \E l \in lines : l.key = VarOrder[i]
          THEN <<VarOrder[i], "=">>
               \o (CHOOSE l \in lines : l.key = VarOrder[i]).rhs \o <<"\n">>
          ELSE <<>>)
         \o EnvBytes(lines, i + 1)

\* What a decrypting operation holds once Decrypt and ParseEnv returned:
\*   plaintext  the slice Decrypt returned (result)
\*   buf        the part of Decrypt's read buffer that r.Read filled
\*   str        string(data), the copy ParseEnv hands to godotenv
\*   vals       the value slices of the map ([]byte(value))
\*   valueCopy  GetEnvVar's copy of the requested value
\* and how often the cleanup of GetAllEnvVars and the cleanup GetEnvVar
\* returns ran.
MemProc(lines) ==
    [kind |-> "mem", plaintext |-> EnvBytes(lines, 1), buf |-> EnvBytes(lines, 1),
     str |-> EnvBytes(lines, 1), vals |-> ValueBuffers(ParseEnv(lines)),
     valueCopy |-> <<>>, hasCopy |-> FALSE, cleanups |-> 0, copyCleanups |-> 0,
     err |-> NoErr]

\* The cleanup closure of GetAllEnvVars: WipeData(plaintext), WipeData of
\* each value.
GetAllCleanup(p) ==
    [p EXCEPT !.plaintext = WipeData(@), !.vals = CleanupValues(@),
              !.cleanups = @ + 1]

\* get / export: the command up to the return of Decrypt and ParseEnv
\* inside GetAllEnvVars.
MemStart(op, id, f, k) ==
    /\ pc = "idle"
    /\ cmd' = [NoCmd EXCEPT !.op = op, !.id = id, !.file = f, !.key = k]
    /\ pre' = [cfgFile |-> cfgFile, envFile |-> envFile]
    /\ UNCHANGED disk
    /\ LET rc == RuntimeConfig(cfgFile) IN
       IF rc.err # NoErr
       THEN Return(rc.err, EmptyMap, <<>>) /\ mem' = NoMem /\ proc' = NoProc
       ELSE LET r == GetAllEnvVars(id, rc.cfg, f, envFile) IN
       IF r.err # NoErr
       THEN /\ Return(r.err, EmptyMap, <<>>)
            /\ mem' = [NoMem EXCEPT !.cfg = rc.cfg] /\ proc' = NoProc
       ELSE IF ~envFile.exists
       THEN /\ Return(IF op = "get_one" THEN PlainError("variable not found")
                      ELSE NoErr, EmptyMap, <<>>)
            /\ mem' = [NoMem EXCEPT !.cfg = rc.cfg] /\ proc' = NoProc
       ELSE /\ mem' = [NoMem EXCEPT !.cfg = rc.cfg, !.vars = r.vars]
            /\ res' = NoRes
            /\ proc' = MemProc(Decrypt(id, envFile.data).plain)
            /\ pc' = IF op = "get_one" THEN "m_lookup" ELSE "m_caller"

MemStep(next) == /\ pc' = next /\ UNCHANGED <<disk, cmd, mem, pre, res>>

\* GetEnvVar: variables[key]; make and copy when it exists.
MemLookup ==
    /\ pc = "m_lookup"
    /\ proc' = IF cmd.key \in DOMAIN proc.vals
               THEN [proc EXCEPT !.valueCopy = proc.vals[cmd.key], !.hasCopy = TRUE]
               ELSE [proc EXCEPT !.err = PlainError("variable not found")]
    /\ MemStep("m_cleanup")

\* GetEnvVar: cleanup(), on both branches, and the return.
MemCleanup ==
    /\ pc = "m_cleanup"
    /\ proc' = GetAllCleanup(proc)
    /\ MemStep("m_caller")

\* The caller's deferred cleanup(): of GetEnvVar's copy in get, of the
\* map in export; no cleanup was returned with an error.
MemCallerCleanup ==
    /\ pc = "m_caller"
    /\ proc' = IF cmd.op = "get_all" THEN GetAllCleanup(proc)
               ELSE IF proc.hasCopy
               THEN [proc EXCEPT !.valueCopy = WipeData(@), !.copyCleanups = @ + 1]
               ELSE proc
    /\ MemStep("m_main")

\* main: ctx.Run has returned; the exit code.
MemReturn ==
    /\ pc = "m_main"
    /\ Return(proc.err, EmptyMap, <<>>)
    /\ UNCHANGED <<disk, cmd, mem, pre, proc>>

\* os.Exit
MemExit ==
    /\ pc = "done"
    /\ pc' = "idle"
    /\ cmd' = NoCmd /\ mem' = NoMem /\ pre' = NoPre /\ res' = NoRes
    /\ proc' = NoProc
    /\ UNCHANGED disk

MemCommand ==
    \E op \in {"get_one", "get_all"}, id \in PubKeys, f \in Logicals,
       k \in VarNames : MemStart(op, id, f, k)

NextMem ==
    MemCommand \/ MemLookup \/ MemCleanup \/ MemCallerCleanup \/ MemReturn
        \/ MemExit

\* Files written earlier, holding one variable or two.
InitMem ==
    /\ cfgFile \in {[complete |-> TRUE, cfg |-> c] : c \in InitConfigs}
    /\ envFile \in
         {[exists |-> TRUE,
           data |-> [complete |-> TRUE, rcpts |-> rs, plain |-> FormatEnv(m)],
           mode |-> Mode0600] :
            rs \in (SUBSET PubKeys) \ {{}}, m \in Maps \ {EmptyMap}}
         \cup {NoFile}
    /\ tmpFile = NoFile
    /\ impl = "rename"
    /\ pc = "idle"
    /\ cmd = NoCmd
    /\ mem = NoMem
    /\ pre = NoPre
    /\ res = NoRes
    /\ proc = NoProc

SpecMem == InitMem /\ [][NextMem]_vars

\* ------------------------------------------------------------------------
\* Properties of the buffers
\* ------------------------------------------------------------------------

\* Every byte of the buffer is zero.
Zeroed(data) == \A i \in DOMAIN data : data[i] = NUL

\* The operation has returned to the command that called it.
MemReturned == proc.kind = "mem" /\ pc \in {"m_caller", "m_main", "done"}

\* Every cleanup the operation handed out has run.
MemCleaned == proc.kind = "mem" /\ pc \in {"m_main", "done"}

\* C19 (as claimed): when get_one has returned, found or not, the
\* decrypted plaintext and every value of the map are zeroed; the value it
\* returned is a copy that equals the stored value until its own cleanup
\* runs, which zeroes it; and once the cleanups of a decrypting operation
\* have run, every buffer that held plaintext during it is zeroed: the
\* plaintext, the values, the copy, the read buffer of Decrypt and the
\* string ParseEnv made of the plaintext.
C19_PlaintextZeroed ==
    /\ (MemReturned /\ cmd.op = "get_one") =>
          /\ Zeroed(proc.plaintext)
          /\ AllZero(proc.vals)
          /\ (proc.hasCopy /\ proc.copyCleanups = 0) =>
                proc.valueCopy = ParseEnv(pre.envFile.data.plain)[cmd.key]
          /\ (proc.hasCopy /\ proc.copyCleanups > 0) => Zeroed(proc.valueCopy)
    /\ MemCleaned =>
          /\ Zeroed(proc.plaintext)
          /\ AllZero(proc.vals)
          /\ Zeroed(proc.valueCopy)
          /\ Zeroed(proc.buf)
          /\ Zeroed(proc.str)

\* ------------------------------------------------------------------------
\* Two rekey processes on the same file
\* ------------------------------------------------------------------------

\* The project's first recipient and the key both invocations run with.
OwnerName == "owner"

OwnerKey == "kO"

\* What the second rekey process holds: where it stands, its flags, the
\* config it loaded and changed, the variables it decrypted, the blob it
\* writes, the error it returned.
RekeyProc(id, adds) ==
    [kind |-> "rekey", pc |-> "done", id |-> id, adds |-> adds,
     cfg |-> EmptyCfg, vars |-> EmptyMap, wdata |-> Partial, err |-> NoErr]

\* The second process: RekeyCmd.Run up to rekeyFile's call of cfg.Save,
\* on the files as they are when it runs.
Rekey2Start(id, f, adds) ==
    /\ proc = NoProc
    /\ LET v == RekeyValidate(f, adds)
           rc == RuntimeConfig(cfgFile)
           dup == checkDuplicateRecipients(rc.cfg, adds)
           plan == RekeyPlan(rc.cfg, f, adds)
           r == GetAllEnvVars(id, plan, f, envFile)
           p == RekeyProc(id, adds)
       IN proc' =
            IF v # NoErr THEN [p EXCEPT !.err = v]
            ELSE IF rc.err # NoErr THEN [p EXCEPT !.err = rc.err]
            ELSE IF dup # NoErr THEN [p EXCEPT !.err = dup]
            ELSE IF GetEnvFile(plan, f).err # NoErr
            THEN [p EXCEPT !.err = GetEnvFile(plan, f).err]
            ELSE IF ~envFile.exists THEN [p EXCEPT !.cfg = plan]
            ELSE IF r.err # NoErr THEN [p EXCEPT !.err = r.err]
            ELSE [p EXCEPT !.pc = "c_open", !.cfg = plan, !.vars = r.vars]
    /\ UNCHANGED <<disk, pc, cmd, mem, pre, res>>

\* The second process, Config.Save: os.WriteFile truncates the config.
Rekey2CfgOpen ==
    /\ proc.kind = "rekey" /\ proc.pc = "c_open"
    /\ cfgFile' = Partial
    /\ proc' = [proc EXCEPT !.pc = "c_write"]
    /\ UNCHANGED <<envFile, tmpFile, impl, pc, cmd, mem, pre, res>>

\* The second process: the config is written; SaveAllEnvVars up to
\* WriteFile.
Rekey2CfgWrite ==
    /\ proc.kind = "rekey" /\ proc.pc = "c_write"
    /\ cfgFile' = [complete |-> TRUE, cfg |-> proc.cfg]
    /\ LET sd == SaveAllEnvVarsData(proc.cfg, ProdFile, proc.vars) IN
       proc' = IF sd.err # NoErr
               THEN [proc EXCEPT !.pc = "done", !.err = sd.err]
               ELSE [proc EXCEPT !.pc = WriteStart, !.wdata = sd.data]
    /\ UNCHANGED <<envFile, tmpFile, impl, pc, cmd, mem, pre, res>>

\* The second process, WriteFile with a temp file of its own: CreateTemp,
\* Write, Close, Rename over the target.
Rekey2Rename ==
    /\ proc.kind \in {"rekey", "write"} /\ proc.pc = "w_create"
    /\ envFile' = [exists |-> TRUE, data |-> proc.wdata, mode |-> Mode0600]
    /\ proc' = [proc EXCEPT !.pc = "done"]
    /\ UNCHANGED <<cfgFile, tmpFile, impl, pc, cmd, mem, pre, res>>

\* The second process, os.WriteFile on the target: open and truncate.
Rekey2DOpen ==
    /\ proc.kind \in {"rekey", "write"} /\ proc.pc = "d_open"
    /\ envFile' = [exists |-> TRUE, data |-> Partial,
                   mode |-> IF envFile.exists THEN envFile.mode ELSE Mode0600]
    /\ proc' = [proc EXCEPT !.pc = "d_write"]
    /\ UNCHANGED <<cfgFile, tmpFile, impl, pc, cmd, mem, pre, res>>

\* The second process, os.WriteFile on the target: write.
Rekey2DWrite ==
    /\ proc.kind \in {"rekey", "write"} /\ proc.pc = "d_write"
    /\ envFile' = [envFile EXCEPT !.data = proc.wdata]
    /\ proc' = [proc EXCEPT !.pc = "done"]
    /\ UNCHANGED <<cfgFile, tmpFile, impl, pc, cmd, mem, pre, res>>

\* The second process exits.
Rekey2Exit ==
    /\ proc.kind \in {"rekey", "write"} /\ proc.pc = "done"
    /\ proc' = NoProc
    /\ UNCHANGED <<disk, pc, cmd, mem, pre, res>>

\* One flag per command line.
OneAdd == {adds \in AddLists : Len(adds) = 1}

\* Both invocations name the configured file and run with the owner's key.
Rekey1Command == \E adds \in OneAdd : Rekey(OwnerKey, ProdFile, adds)

Rekey2Command == \E adds \in OneAdd : Rekey2Start(OwnerKey, ProdFile, adds)

Rekey2Step ==
    \/ Rekey2CfgOpen \/ Rekey2CfgWrite
    \/ Rekey2Rename \/ Rekey2DOpen \/ Rekey2DWrite
    \/ Rekey2Exit

NextRekey2 ==
    \/ Rekey1Command \/ CfgStep \/ WriteStep \/ Exit
    \/ Rekey2Command \/ Rekey2Step

\* A project of one recipient, whose file was written for that recipient.
InitRekey2 ==
    /\ cfgFile \in
         {[complete |-> TRUE,
           cfg |-> [recipients |-> [n \in {OwnerName} |-> OwnerKey],
                    groups |-> NoGroups,
                    files |-> [f \in {ProdFile} |->
                                 [filename |-> RelName, access |-> a]]]] :
            a \in {<<"*">>, <<OwnerName>>}}
    /\ envFile \in
         {[exists |-> TRUE,
           data |-> [complete |-> TRUE, rcpts |-> {OwnerKey},
                     plain |-> FormatEnv(InitVars)],
           mode |-> Mode0600]}
    /\ tmpFile = NoFile
    /\ impl \in {"rename", "direct"}
    /\ pc = "idle"
    /\ cmd = NoCmd
    /\ mem = NoMem
    /\ pre = NoPre
    /\ res = NoRes
    /\ proc = NoProc

SpecRekey2 == InitRekey2 /\ [][NextRekey2]_vars

\* ------------------------------------------------------------------------
\* Properties of two rekey processes
\* ------------------------------------------------------------------------

\* The steps of a rekey between the load of the config and the end of
\* the re-encryption.
RekeySteps ==
    {"c_open", "c_write", "w_create", "w_write", "w_rename", "d_open", "d_write"}

\* Both invocations have returned without an error.
BothRekeyed ==
    /\ RekeyDone /\ res.err = NoErr
    /\ proc.kind = "rekey" /\ proc.pc = "done" /\ proc.err = NoErr

\* The flags of both command lines.
BothAdds == Range(cmd.adds) \cup Range(proc.adds)

\* C20 (as claimed): two rekey invocations on the same file are never
\* both between loading the config and finishing the re-encryption, and
\* when both have succeeded every recipient either of them added is in
\* the config on disk and the ciphertext on disk is encrypted for the
\* keys of all of them.
C20_OneRekeyAtATime ==
    /\ ~(cmd.op = "rekey" /\ pc \in RekeySteps
         /\ proc.kind = "rekey" /\ proc.pc \in RekeySteps)
    /\ BothRekeyed =>
          /\ cfgFile.complete
          /\ \A a \in BothAdds :
                /\ a.name \in DOMAIN cfgFile.cfg.recipients
                /\ cfgFile.cfg.recipients[a.name] = a.key
          /\ envFile.exists /\ envFile.data.complete
          /\ \A a \in BothAdds : a.key \in envFile.data.rcpts

\* ------------------------------------------------------------------------
\* Two writers of the same encrypted file
\* ------------------------------------------------------------------------

\* What a second writing process holds: where it stands, the file as it
\* found it, the blob it writes, the error it returned.
WriteProc(id, old) ==
    [kind |-> "write", pc |-> "done", id |-> id, old |-> old,
     wdata |-> Partial, err |-> NoErr]

\* The second process: core.SetEnvVar up to the call of WriteFile, on the
\* files as they are when it runs.
Write2Start(id, f, k, v) ==
    /\ proc = NoProc
    /\ LET rc == RuntimeConfig(cfgFile)
           r == GetAllEnvVars(id, rc.cfg, f, envFile)
           sd == SaveAllEnvVarsData(rc.cfg, f, MapSet(r.vars, k, v))
           p == WriteProc(id, envFile)
       IN proc' =
            IF rc.err # NoErr THEN [p EXCEPT !.err = rc.err]
            ELSE IF r.err # NoErr THEN [p EXCEPT !.err = r.err]
            ELSE IF sd.err # NoErr THEN [p EXCEPT !.err = sd.err]
            ELSE [p EXCEPT !.pc = WriteStart, !.wdata = sd.data]
    /\ UNCHANGED <<disk, pc, cmd, mem, pre, res>>

\* Both invocations name the configured file; each runs with its own key.
Write1Command ==
    \/ \E k \in VarNames, v \in Values : SetOne("kA", ProdFile, k, v)
    \/ \E m \in Maps : SetAll("kA", ProdFile, m)

Write2Command == \E k \in VarNames, v \in Values : Write2Start("kB", ProdFile, k, v)

NextWrite2 ==
    \/ Write1Command \/ WriteStep \/ Exit
    \/ Write2Command
    \/ Rekey2Rename \/ Rekey2DOpen \/ Rekey2DWrite \/ Rekey2Exit

\* A project of two recipients, whose file was written for both.
InitWrite2 ==
    /\ cfgFile = [complete |-> TRUE,
                  cfg |-> [recipients |-> [n \in Names |->
                                             IF n = "alice" THEN "kA" ELSE "kB"],
                           groups |-> NoGroups,
                           files |-> [f \in {ProdFile} |->
                                        [filename |-> RelName, access |-> <<"*">>]]]]
    /\ envFile = [exists |-> TRUE,
                  data |-> [complete |-> TRUE, rcpts |-> PubKeys,
                            plain |-> FormatEnv(InitVars)],
                  mode |-> Mode0600]
    /\ tmpFile = NoFile
    /\ impl \in {"rename", "direct"}
    /\ pc = "idle"
    /\ cmd = NoCmd
    /\ mem = NoMem
    /\ pre = NoPre
    /\ res = NoRes
    /\ proc = NoProc

SpecWrite2 == InitWrite2 /\ [][NextWrite2]_vars

\* ------------------------------------------------------------------------
\* Properties of two writers
\* ------------------------------------------------------------------------

\* Both writers are at work or have returned.
TwoWriters == cmd.op \in {"set_one", "set_all"} /\ proc.kind = "write"

\* C21 (as claimed): while two invocations write the same file, what a
\* reader finds on disk is always a complete ciphertext, the one either
\* writer found or the complete output of one of them, and when both have
\* succeeded it is the complete output of one of them.
C21_RacingWritersAtomic ==
    TwoWriters =>
        /\ envFile.exists /\ envFile.data.complete
        /\ envFile.data \in {pre.envFile.data, proc.old.data, mem.wdata, proc.wdata}
        /\ (pc = "done" /\ res.err = NoErr /\ proc.pc = "done" /\ proc.err = NoErr)
              => envFile.data \in {mem.wdata, proc.wdata}

\* ------------------------------------------------------------------------
\* set --from-file
\* ------------------------------------------------------------------------

\* The values a JSON document can give a key: strings, a number, a
\* boolean, null, and a value of a type parseJSONFile rejects.
JsonValues ==
    {[t |-> "string", s |-> v] : v \in Values} \cup
    {[t |-> "number", n |-> 7], [t |-> "bool", b |-> TRUE],
     [t |-> "null"], [t |-> "array"]}

JsonFiles == UNION {[S -> JsonValues] : S \in SUBSET VarNames}

\* parseJSONFile's string form of a JSON value: a string is itself, a
\* boolean is printed with %t, an integral number with %.0f, null is the
\* empty string.
JsonString(j) ==
    IF j.t = "string" THEN j.s
    ELSE IF j.t = "bool"
    THEN (IF j.b THEN <<"t", "r", "u", "e">> ELSE <<"f", "a", "l", "s", "e">>)
    ELSE IF j.t = "number" THEN Itoa(j.n)
    ELSE <<>>

\* parseJSONFile and validateJSONVariables: an unsupported value type and
\* a document without variables are refused.
parseJSONFile(json) ==
    IF \E k \in DOMAIN json : json[k].t = "array"
    THEN [err |-> ValidationError("unsupported value type", "array"), vars |-> EmptyMap]
    ELSE IF DOMAIN json = {}
    THEN [err |-> ValidationError("no variables found in JSON file", ""), vars |-> EmptyMap]
    ELSE [err |-> NoErr, vars |-> [k \in DOMAIN json |-> JsonString(json[k])]]

\* The stored map with every variable of the document written over it.
MergeVars(existing, new) ==
    [k \in DOMAIN existing \cup DOMAIN new |->
        IF k \in DOMAIN new THEN new[k] ELSE existing[k]]

\* SetCmd.setFromFile up to WriteFile.
SetFromFile(id, f, json) ==
    /\ Begin("set_file", id, f, "", <<>>, json, <<>>)
    /\ LET pj == parseJSONFile(json)
           rc == RuntimeConfig(cfgFile) IN
       IF rc.err # NoErr
       THEN Return(rc.err, EmptyMap, <<>>) /\ mem' = NoMem
       ELSE IF pj.err # NoErr
       THEN Return(pj.err, EmptyMap, <<>>) /\ mem' = [NoMem EXCEPT !.cfg = rc.cfg]
       ELSE LET r == GetAllEnvVars(id, rc.cfg, f, envFile) IN
            IF r.err # NoErr
            THEN Return(r.err, EmptyMap, <<>>) /\ mem' = [NoMem EXCEPT !.cfg = rc.cfg]
            ELSE SaveAll(rc.cfg, f, MergeVars(r.vars, pj.vars))
    /\ UNCHANGED disk

SetFileCommand ==
    \E id \in PubKeys, f \in Logicals, json \in JsonFiles : SetFromFile(id, f, json)

NextSetFile == SetFileCommand \/ WriteStep \/ Exit

SpecSetFile == Init /\ [][NextSetFile]_vars

\* C22 (as claimed): after a successful set --from-file, every key of the
\* JSON document reads back as the string form of its JSON value, and
\* every key stored before and absent from the document reads back as it
\* did before, for a caller whose key is in the file's resolved access.
C22_FromFileMerges ==
    (Done("set_file") /\ res.err = NoErr /\ cmd.id \in Granted(cfgFile, cmd.file)) =>
        LET now == GetAllEnvVars(cmd.id, mem.cfg, cmd.file, envFile)
            was == GetAllEnvVars(cmd.id, mem.cfg, cmd.file, pre.envFile) IN
        /\ now.err = NoErr
        /\ \A k \in DOMAIN cmd.map :
              k \in DOMAIN now.vars /\ now.vars[k] = JsonString(cmd.map[k])
        /\ \A k \in DOMAIN was.vars \ DOMAIN cmd.map :
              k \in DOMAIN now.vars /\ now.vars[k] = was.vars[k]

\* ------------------------------------------------------------------------
\* The encrypted SSH identity
\* ------------------------------------------------------------------------

MaxUnwrap == 3

\* The SSH key types agessh builds an identity for; a key of another type
\* still parses to a PassphraseMissingError with its public key.
SSHKeyTypes == {"ssh-ed25519", "ecdsa-sha2-nistp256"}

\* newSSHIdentity on a passphrase-protected key: the wrapper holds a copy
\* of the key bytes and the public key, no inner identity, and nothing
\* has been asked of the terminal. builds, prompts and unwraps count the
\* calls of agessh.NewEncryptedSSHIdentity, of passphraseFunc and of
\* Unwrap since the wrapper was made or last cleaned.
newSSHIdentity(pub, keyType) ==
    [kind |-> "ssh", pubKey |-> pub, keyType |-> keyType, keyData |-> "pem",
     identity |-> "nil", decrypted |-> FALSE,
     builds |-> 0, prompts |-> 0, unwraps |-> 0, err |-> NoErr]

SSHError(msg) == [kind |-> "ssh", msg |-> msg, arg |-> ""]

\* LoadPrivateKey of an encrypted SSH key file.
SSHLoad(pub, keyType) ==
    /\ proc = NoProc
    /\ proc' = newSSHIdentity(pub, keyType)
    /\ UNCHANGED <<disk, pc, cmd, mem, pre, res>>

\* encryptedSSHIdentityWrapper.Unwrap on the stanzas of the encrypted
\* file. Without an inner identity it calls NewEncryptedSSHIdentity, which
\* refuses a key type it does not support, and stores the result only
\* when that succeeded. The inner identity's Unwrap reuses its decrypted
\* key when it has one; otherwise it calls passphraseFunc when a stanza
\* is addressed to the public key, and keeps the decrypted key only when
\* the passphrase opens the key bytes.
SSHUnwrap(passOk) ==
    /\ proc.kind = "ssh"
    /\ proc.unwraps < MaxUnwrap
    /\ envFile.exists
    /\ LET p == [proc EXCEPT !.unwraps = @ + 1]
           build == p.identity = "nil"
           b == IF build THEN [p EXCEPT !.builds = @ + 1] ELSE p
           match == b.pubKey \in envFile.data.rcpts
           opens == passOk /\ b.keyData = "pem" IN
       proc' =
          IF build /\ b.keyType # "ssh-ed25519"
          THEN [b EXCEPT !.err = SSHError("create encrypted SSH identity")]
          ELSE LET w == [b EXCEPT !.identity = "inner"] IN
               IF w.decrypted
               THEN [w EXCEPT !.err = IF match THEN NoErr
                                      ELSE SSHError("unwrap SSH identity")]
               ELSE IF ~match
               THEN [w EXCEPT !.err = SSHError("unwrap SSH identity")]
               ELSE [w EXCEPT !.prompts = @ + 1,
                              !.decrypted = opens,
                              !.err = IF opens THEN NoErr
                                      ELSE SSHError("unwrap SSH identity")]
    /\ UNCHANGED <<disk, pc, cmd, mem, pre, res>>

\* encryptedSSHIdentityWrapper.Cleanup: the key bytes are wiped and the
\* inner identity dropped.
SSHCleanup ==
    /\ proc.kind = "ssh"
    /\ proc.keyData = "pem"
    /\ proc' = [proc EXCEPT !.keyData = "nil", !.identity = "nil",
                            !.decrypted = FALSE, !.builds = 0,
                            !.prompts = 0, !.unwraps = 0, !.err = NoErr]
    /\ UNCHANGED <<disk, pc, cmd, mem, pre, res>>

SSHLoadCommand == \E pub \in PubKeys, t \in SSHKeyTypes : SSHLoad(pub, t)

SSHUnwrapStep == \E passOk \in BOOLEAN : SSHUnwrap(passOk)

NextSSH == SSHLoadCommand \/ SSHUnwrapStep \/ SSHCleanup

InitSSH == Init /\ envFile.exists /\ impl = "rename"

SpecSSH == InitSSH /\ [][NextSSH]_vars

\* C23 (as claimed): constructing the encrypted-SSH identity asks for no
\* passphrase and builds nothing; once it has been unwrapped, and until
\* Cleanup, it holds the inner identity that the first unwrap built, no
\* other one has been built and the passphrase has been asked for at most
\* once.
C23_LazySSHIdentity ==
    (proc.kind = "ssh" /\ proc.keyData = "pem") =>
        /\ proc.unwraps = 0 =>
              proc.identity = "nil" /\ proc.builds = 0 /\ proc.prompts = 0
        /\ proc.unwraps >= 1 =>
              proc.identity = "inner" /\ proc.builds = 1 /\ proc.prompts <= 1

\* ------------------------------------------------------------------------
\* The errors of Config.ResolveFileAccess
\* ------------------------------------------------------------------------

\* The keys one access token stands for: all declared keys for the
\* wildcard, the keys of the declared members for a group, the key of a
\* declared recipient, nothing for anything else.
TokenKeys(c, t) ==
    IF t = "*" THEN DeclaredKeys(c)
    ELSE IF t \in DOMAIN c.groups
    THEN {c.recipients[m] : m \in Range(c.groups[t]) \cap DOMAIN c.recipients}
    ELSE IF t \in DOMAIN c.recipients THEN {c.recipients[t]}
    ELSE {}

\* The keys of the tokens up to and including the first wildcard.
ExaminedKeys(c, access) ==
    UNION {TokenKeys(c, access[j]) :
             j \in {j \in 1..Len(access) : \A i \in 1..(j - 1) : access[i] # "*"}}

\* C24: ResolveFileAccess returns an error exactly when the logical file
\* is not in the config or no key is resolved; otherwise it returns the
\* keys of the tokens up to the first wildcard, where a token that is no
\* wildcard, group or recipient and a group member that is no declared
\* recipient give no key and no error.
C24_ResolveErrors ==
    (pc = "done" /\ cmd.op = "resolve") =>
        LET c == mem.cfg
            known == cmd.file \in DOMAIN c.files IN
        /\ res.err # NoErr <=>
              (~known \/ ExaminedKeys(c, c.files[cmd.file].access) = {})
        /\ res.err = NoErr =>
              Range(res.value) = ExaminedKeys(c, c.files[cmd.file].access)

\* C24 witness: a resolution returned keys for an access list that holds
\* a token declared nowhere and a group with a member that is no declared
\* recipient.
C24_Witness ==
    /\ pc = "done" /\ cmd.op = "resolve" /\ res.err = NoErr
    /\ LET c == mem.cfg
           access == c.files[cmd.file].access IN
       /\ \E j \in 1..Len(access) :
             access[j] \notin DOMAIN c.groups \cup DOMAIN c.recipients \cup {"*"}
       /\ \E j \in 1..Len(access) :
             /\ access[j] \in DOMAIN c.groups
             /\ ~(Range(c.groups[access[j]]) \subseteq DOMAIN c.recipients)
       /\ "*" \notin Range(access)

\* ------------------------------------------------------------------------
\* When edit saves
\* ------------------------------------------------------------------------

\* C25: an edit has changed the encrypted file only if the editor ended
\* by itself with code 0 and executeEditor returned no error (no
\* cancellation; Run holds no error while the process lives), the temp file was modified after its time was recorded,
\* its content parses and every name in it is valid; in every other case
\* the encrypted file is as it was when the edit began.
C25_EditSavesOnlyValidChanges ==
    (cmd.op = "edit" /\ envFile # pre.envFile) =>
        /\ proc.kind = "edit"
        /\ proc.editor = "exited" /\ proc.code = 0
        /\ proc.alive => proc.err = NoErr
        /\ proc.modified
        /\ MalformedName \notin {l.key : l \in proc.text}
        /\ BadVarName \notin DOMAIN ParseEnv(proc.text)

\* C25 witness: an edit returned without error and the encrypted file
\* holds what the editor wrote.
C25_Witness ==
    /\ EditDone /\ res.err = NoErr
    /\ envFile # pre.envFile
    /\ envFile.data.plain = proc.text

\* ------------------------------------------------------------------------
\* The file names of a persisted config
\* ------------------------------------------------------------------------

\* C26 (as claimed): once a rekey has persisted the config, every file
\* entry of the persisted config holds the file name the config file held
\* before the rekey.
C26_RekeyKeepsFilenames ==
    (/\ RekeyDone /\ res.err = NoErr
     /\ pre.cfgFile.complete /\ cfgFile.complete) =>
        \A f \in DOMAIN pre.cfgFile.cfg.files :
            /\ f \in DOMAIN cfgFile.cfg.files
            /\ cfgFile.cfg.files[f].filename = pre.cfgFile.cfg.files[f].filename

\* ------------------------------------------------------------------------
\* Every writer of the encrypted file: set, edit, rekey
\* ------------------------------------------------------------------------

SetCommand ==
    \E id \in PubKeys, f \in Logicals :
        \/ \E k \in VarNames, v \in Values : SetOne(id, f, k, v)
        \/ \E m \in Maps : SetAll(id, f, m)

\* The steps of an edit that no signal reaches.
EditQuiet ==
    \/ EditCommand
    \/ (\E ok \in BOOLEAN : EditDetermine(ok))
    \/ EditSetup
    \/ (\E found \in BOOLEAN : EditLaunch(found))
    \/ GorCtxDone
    \/ (\E t \in EditTexts : EditorSave(t))
    \/ (\E n \in ExitCodes : EditorExit(n))
    \/ EditWait
    \/ (\E ok \in BOOLEAN : EditProcess(ok))
    \/ EditCancel \/ EditJoin \/ EditCleanup \/ EditReturn \/ EditExit

NextWriters ==
    \/ SetCommand \/ RekeyCommand \/ CfgStep \/ WriteStep
    \/ (proc = NoProc /\ Exit)
    \/ EditQuiet

SpecWriters == InitRekey /\ [][NextWriters]_vars

\* A command has written the encrypted file and reported no error.
WroteFile ==
    \/ pc = "done" /\ cmd.op \in {"set_one", "set_all"} /\ res.err = NoErr
    \/ pc = "done" /\ cmd.op = "rekey" /\ res.err = NoErr /\ pre.envFile.exists
    \/ cmd.op = "edit" /\ envFile # pre.envFile

\* C27: after a successful write of the encrypted file by set, edit or
\* rekey, the identities that can decrypt it are exactly the keys
\* ResolveFileAccess gives on the config the writer held, whoever the
\* writer was.
C27_RecipientsAreResolvedAccess ==
    WroteFile =>
        /\ envFile.exists
        /\ CanDecrypt(envFile) = ResolveFileAccess(mem.cfg, cmd.file).keys

\* C27 witness: a command wrote the encrypted file that its own identity
\* cannot decrypt, while another identity can.
C27_Witness ==
    /\ WroteFile
    /\ cmd.id \notin CanDecrypt(envFile)
    /\ CanDecrypt(envFile) # {}

\* C28: set_all of the empty map returns an error and leaves the
\* encrypted file as it was, and whatever set, edit and rekey do, an
\* encrypted file that decrypts never decrypts to the empty map.
C28_EmptyMapNeverStored ==
    /\ (pc = "done" /\ cmd.op = "set_all" /\ cmd.map = EmptyMap) =>
          (res.err # NoErr /\ envFile = pre.envFile)
    /\ (envFile.exists /\ envFile.data.complete) =>
          ParseEnv(envFile.data.plain) # EmptyMap

\* C28 witness: set_all of the empty map on an existing file of a valid
\* config has returned.
C28_Witness ==
    /\ pc = "done" /\ cmd.op = "set_all" /\ cmd.map = EmptyMap
    /\ cmd.file = ProdFile
    /\ pre.envFile.exists
    /\ RuntimeConfig(pre.cfgFile).err = NoErr
    /\ res.err = PlainError("cannot encrypt")

\* ------------------------------------------------------------------------
\* Substituted values under the default delimiters
\* ------------------------------------------------------------------------

\* C29 (as claimed): with the default delimiters a substitution that
\* succeeds gives the template with each ${NAME} and $NAME of the template
\* replaced once by its value, the text of the values left as it is, and
\* a strict substitution that fails lists only names the template itself
\* refers to.
C29_ValuesNotRescanned ==
    (ApplyDone /\ ~proc.custom) =>
        /\ res.err = NoErr =>
              proc.out = Substituted(FALSE, proc.template, 1, proc.variables)
        /\ Range(proc.missing) \subseteq Referenced(FALSE, proc.template, 1)

\* ------------------------------------------------------------------------
\* What a rekey leaves of the persisted config
\* ------------------------------------------------------------------------

\* The config a config file holds; a file cut short holds none.
Persisted(onDisk) == IF onDisk.complete THEN onDisk.cfg ELSE EmptyCfg

\* The list a is the list b with some elements of b left out.
IsSubsequence(a, b) ==
    \E pos \in [1..Len(a) -> 1..Len(b)] :
        /\ \A i \in 1..Len(a) : b[pos[i]] = a[i]
        /\ \A i, j \in 1..Len(a) : i < j => pos[i] < pos[j]

\* C30 (as claimed): when a rekey has returned, with or without an error,
\* every recipient of the config persisted before it is in the persisted
\* config with the same key, the access list of the file it named holds
\* every token it held, in the same order, every other file entry has its
\* access list, and the groups are as they were.
C30_RekeyOnlyGrows ==
    (pc = "done" /\ cmd.op = "rekey" /\ pre.cfgFile.complete) =>
        LET was == Persisted(pre.cfgFile)
            now == Persisted(cfgFile) IN
        /\ \A n \in DOMAIN was.recipients :
              n \in DOMAIN now.recipients /\ now.recipients[n] = was.recipients[n]
        /\ \A f \in DOMAIN was.files :
              /\ f \in DOMAIN now.files
              /\ IF f = cmd.file
                 THEN IsSubsequence(was.files[f].access, now.files[f].access)
                 ELSE now.files[f].access = was.files[f].access
        /\ now.groups = was.groups

====
